---- MODULE Spec2Model ----
(***************************************************************************)
(* Payment orchestration and reliable delivery: the ProcessPayment and     *)
(* RefundPayment use cases, the Redis idempotency store, the PostgreSQL    *)
(* repositories (request session, commit and flush) and the outbox relay.  *)
(***************************************************************************)
EXTENDS Integers, Sequences, FiniteSets, TLC

\* ------------------------------------------------------------------ bounds
MaxRuns == 2          \* ProcessPayment requests submitted
MaxKeys == 1          \* distinct idempotency keys the clients use
MaxFaults == 1        \* infrastructure faults (database, Redis) injected
TicksPerSecond == 2   \* clock readings per second (sub-second part of datetimes)
PayAmount == 2        \* amount of every payment, in minor units
MaxRefunds == 2       \* RefundPayment requests submitted
MaxEventAttempts == 6 \* cap of an outbox row's attempts counter
MaxCalls == 4         \* method calls made on one Payment object
Precision == 1        \* significant digits of the decimal context (prec=28), scaled down
MaxOps == 3           \* operations in one Amount computation
MaxBatch == 1 \* batch_size of the ticks of StarveSpec (scaled from 100)
MaxTasks == 2 \* loop tasks that start() may create

\* ------------------------------------------------------------------ program constants
BatchSize == 100      \* publish_pending_events(batch_size=100)
FreshLimit == 1000    \* get_unpublished(limit=1000) in _publish_event_with_retry
RetryAttempts == 3    \* tenacity stop_after_attempt(3)
ServiceMaxAttempts == 5  \* OutboxPublisherService(max_attempts=5)

Runs == 1..MaxRuns
Keys == 1..MaxKeys
Refunds == 1..MaxRefunds

\* ------------------------------------------------------------------ state
VARIABLES
    idem,        \* Redis: idempotency key -> cached (serialized) response
    payments,    \* committed rows of the payments table, by payment id
    ledger,      \* committed rows of the transactions table
    outbox,      \* committed rows of outbox_events
    saved,       \* every row a successful OutboxRepository.save was called with
    pending,     \* per request session: outbox rows flushed, not yet committed
    proc,        \* per ProcessPayment run: position and locals of execute()
    clock,       \* datetime.now(UTC): the current instant, in ticks
    faults,      \* infrastructure faults injected so far
    chargeCalls, \* gateway log: invocations of charge per idempotency key
    chargeOk,    \* gateway log: charges that returned successfully per key
    expired,     \* keys whose cached record has expired (TTL) at least once
    rproc,       \* per RefundPayment run: position and locals of execute()
    refundLog,   \* gateway log: the refund calls that returned successfully
    bus,         \* Event Bus: the messages delivered to RabbitMQ, in order
    relay,       \* OutboxPublisherService: position and locals of a tick
    entity,      \* a Payment object under a sequence of direct method calls
    calc,        \* an Amount computation: the last operation and its result
    worker       \* OutboxWorker: _running, _task, the tasks created, stop() calls

orch == <<idem, payments, ledger, outbox, saved, pending, proc, clock, faults,
          chargeCalls, chargeOk, expired>>
vars == <<orch, rproc, refundLog, bus, relay, entity, calc, worker>>

\* ------------------------------------------------------------------ values
NoTx == <<>>          \* provider_transaction_id = None
NoError == ""         \* no exception raised
NoText == <<>>        \* error_message / last_error = None
str(e) == <<e>>       \* str(exception): a string, never None

DateTimeOf(c) == [sec |-> c \div TicksPerSecond, usec |-> c % TicksPerSecond]

\* datetime.isoformat(): the fractional part is written only when non-zero
isoformat(d) == IF d.usec = 0 THEN <<d.sec>> ELSE <<d.sec, d.usec>>

\* datetime.fromisoformat(): a missing fractional part reads as zero
fromisoformat(s) == [sec |-> s[1], usec |-> IF Len(s) >= 2 THEN s[2] ELSE 0]

\* TransactionStatus.is_terminal
is_terminal(status) == status \in {"completed", "failed", "refunded", "cancelled"}

\* A can_refund that holds of every status.
can_refund_any(status) == TRUE

\* TransactionStatus.can_refund
can_refund(status) == status \in {"completed", "partially_refunded"}

\* ------------------------------------------------------------------ Amount
\* Currency codes are sequences of letters.
USD == <<"U", "S", "D">>
EUR == <<"E", "U", "R">>

\* Decimal values are counted in the smallest unit in use.  Construction of a
\* Decimal is exact; the result of + and - is rounded to the precision of the
\* decimal context, ROUND_HALF_EVEN.
RECURSIVE Digits(_)
Digits(n) == IF n < 10 THEN 1 ELSE 1 + Digits(n \div 10)

RoundHalfEven(n, k) ==
    LET q == n \div k
        r == n % k
    IN  IF 2 * r > k \/ (2 * r = k /\ q % 2 = 1) THEN (q + 1) * k ELSE q * k

\* The context's rounding of a non-negative exact result.
Quantize(n) ==
    IF Digits(n) <= Precision THEN n
    ELSE RoundHalfEven(n, 10 ^ (Digits(n) - Precision))

\* Decimal.__add__ / Decimal.__sub__
Decimal_add(x, y) == IF x + y < 0 THEN 0 - Quantize(0 - (x + y)) ELSE Quantize(x + y)

Decimal_sub(x, y) == Decimal_add(x, 0 - y)

\* An Amount without validation.
Amount_unvalidated(v, c) == [err |-> NoError, amt |-> [value |-> v, currency |-> c]]

\* An Amount is [value, currency]; the operations that can raise return
\* [err, amt].  Amount.__post_init__: the validation of a new Amount
Amount(v, c) ==
    IF v < 0 \/ Len(c) # 3
    THEN [err |-> "InvalidAmountError", amt |-> [value |-> v, currency |-> c]]
    ELSE [err |-> NoError, amt |-> [value |-> v, currency |-> c]]

\* Amount.zero(currency)
zero(c) == [value |-> 0, currency |-> c]

\* An addition that returns its right operand.
Amount_add_right(a, b) ==
    IF a.currency # b.currency
    THEN [err |-> "InvalidAmountError", amt |-> a]
    ELSE Amount(b.value, a.currency)

\* Amount.__add__
Amount_add(a, b) ==
    IF a.currency # b.currency
    THEN [err |-> "InvalidAmountError", amt |-> a]
    ELSE Amount(Decimal_add(a.value, b.value), a.currency)

\* Amount.__sub__
Amount_sub(a, b) ==
    IF a.currency # b.currency
    THEN [err |-> "InvalidAmountError", amt |-> a]
    ELSE LET result == Decimal_sub(a.value, b.value)
         IN  IF result < 0
             THEN [err |-> "InvalidAmountError", amt |-> a]
             ELSE Amount(result, a.currency)

\* Amount.__str__: "<value> <currency>"
Amount_str(a) == <<a.value, a.currency>>

\* ------------------------------------------------------------------ Payment
\* A Payment entity is [id, amount, status, ptx, refunded, created_at,
\* updated_at]; every operation returns [err, pay]: the exception raised
\* ("" for none) and the entity afterwards.  Payment.__post_init__ gives
\* refunded_amount the currency of amount.
NewPayment(id, amount, now) ==
    [id |-> id, amount |-> amount, status |-> "pending", ptx |-> NoTx,
     refunded |-> zero(amount.currency), created_at |-> now, updated_at |-> now]

\* A mark_processing whose rejection still stamps updated_at.
mark_processing_touch(pay, tx, now) ==
    IF pay.status # "pending"
    THEN [err |-> "InvalidPaymentStateError", pay |-> [pay EXCEPT !.updated_at = now]]
    ELSE [err |-> NoError,
          pay |-> [pay EXCEPT !.status = "processing", !.ptx = tx, !.updated_at = now]]

mark_processing(pay, tx, now) ==
    IF pay.status # "pending"
    THEN [err |-> "InvalidPaymentStateError", pay |-> pay]
    ELSE [err |-> NoError,
          pay |-> [pay EXCEPT !.status = "processing", !.ptx = tx, !.updated_at = now]]

\* A mark_completed that is accepted from every status.
mark_completed_any(pay, now) ==
    [err |-> NoError, pay |-> [pay EXCEPT !.status = "completed", !.updated_at = now]]

mark_completed(pay, now) ==
    IF pay.status # "processing"
    THEN [err |-> "InvalidPaymentStateError", pay |-> pay]
    ELSE [err |-> NoError, pay |-> [pay EXCEPT !.status = "completed", !.updated_at = now]]

\* A mark_failed that accepts the call and leaves the status as it is.
mark_failed_keep(pay, now) == [err |-> NoError, pay |-> pay]

\* A mark_failed that is accepted from every status.
mark_failed_always(pay, now) ==
    [err |-> NoError, pay |-> [pay EXCEPT !.status = "failed", !.updated_at = now]]

\* A mark_failed that is rejected from COMPLETED only.
mark_failed_refunded(pay, now) ==
    IF pay.status = "completed"
    THEN [err |-> "InvalidPaymentStateError", pay |-> pay]
    ELSE [err |-> NoError, pay |-> [pay EXCEPT !.status = "failed", !.updated_at = now]]

mark_failed(pay, now) ==
    IF pay.status \in {"completed", "refunded"}
    THEN [err |-> "InvalidPaymentStateError", pay |-> pay]
    ELSE [err |-> NoError, pay |-> [pay EXCEPT !.status = "failed", !.updated_at = now]]

\* A refund that rejects the boundary total == amount.
refund_strict(pay, x, now) ==
    IF ~can_refund(pay.status)
    THEN [err |-> "InvalidPaymentStateError", pay |-> pay]
    ELSE LET total_refunded == Amount_add(pay.refunded, x)
         IN  IF total_refunded.err # NoError
             THEN [err |-> total_refunded.err, pay |-> pay]
             ELSE IF total_refunded.amt.value >= pay.amount.value
             THEN [err |-> "RefundExceedsOriginalError", pay |-> pay]
             ELSE [err |-> NoError,
                   pay |-> [pay EXCEPT
                       !.refunded = total_refunded.amt,
                       !.status = "partially_refunded",
                       !.updated_at = now]]

\* A refund without the check against the original amount.
refund_unchecked(pay, x, now) ==
    IF ~can_refund(pay.status)
    THEN [err |-> "InvalidPaymentStateError", pay |-> pay]
    ELSE LET total_refunded == Amount_add(pay.refunded, x)
         IN  IF total_refunded.err # NoError
             THEN [err |-> total_refunded.err, pay |-> pay]
             ELSE [err |-> NoError,
                   pay |-> [pay EXCEPT
                       !.refunded = total_refunded.amt,
                       !.status = IF total_refunded.amt.value = pay.amount.value
                                  THEN "refunded" ELSE "partially_refunded",
                       !.updated_at = now]]

refund(pay, x, now) ==
    IF ~can_refund(pay.status)
    THEN [err |-> "InvalidPaymentStateError", pay |-> pay]
    ELSE LET total_refunded == Amount_add(pay.refunded, x)
         IN  IF total_refunded.err # NoError
             THEN [err |-> total_refunded.err, pay |-> pay]
             ELSE IF total_refunded.amt.value > pay.amount.value
             THEN [err |-> "RefundExceedsOriginalError", pay |-> pay]
             ELSE [err |-> NoError,
                   pay |-> [pay EXCEPT
                       !.refunded = total_refunded.amt,
                       !.status = IF total_refunded.amt.value = pay.amount.value
                                  THEN "refunded" ELSE "partially_refunded",
                       !.updated_at = now]]

\* ------------------------------------------------------------------ compensation strategies
\* PaymentFailedCompensation.compensate: payment.mark_failed(), then a log line
PaymentFailedCompensation(pay, now) == mark_failed(pay, now)

\* A retry compensation that marks the payment failed.
RetryableFailureCompensation_fail(pay, now) == mark_failed(pay, now)

\* RetryableFailureCompensation.compensate: a log line only
RetryableFailureCompensation(pay, now) == [err |-> NoError, pay |-> pay]

\* FraudDetectedCompensation.compensate: payment.mark_failed(), then a log line
FraudDetectedCompensation(pay, now) == mark_failed(pay, now)

\* A remaining amount that ignores what was refunded before.
remaining_refundable_amount_full(pay) ==
    IF ~can_refund(pay.status)
    THEN [err |-> NoError, amt |-> zero(pay.amount.currency)]
    ELSE [err |-> NoError, amt |-> pay.amount]

\* Payment.remaining_refundable_amount: [err, amt]
remaining_refundable_amount(pay) ==
    IF ~can_refund(pay.status)
    THEN [err |-> NoError, amt |-> zero(pay.amount.currency)]
    ELSE Amount_sub(pay.amount, pay.refunded)

\* ------------------------------------------------------------------ stores
\* A store whose EXISTS never finds the key.
is_duplicate_miss(k) == FALSE

\* RedisIdempotencyStore.is_duplicate: EXISTS idempotency:<key>
is_duplicate(k) == k \in DOMAIN idem

\* PostgreSQLPaymentRepository.save / _model_to_entity: the row of a Payment
\* stores refunded_amount with the currency of amount.
PaymentRow(pay) ==
    [pay EXCEPT !.refunded = [value |-> pay.refunded.value,
                              currency |-> pay.amount.currency]]

\* Transaction ids and outbox event ids are uuid4(): fresh per construction,
\* modelled as (run, n-th object the run constructed).
OutboxEvent(r, n, event_type, now) ==
    [id |-> <<r, n>>, aggregate_type |-> "Payment", aggregate_id |-> r,
     event_type |-> event_type, created_at |-> now,
     published |-> FALSE, attempts |-> 0, last_error |-> NoText]

Transaction(id, payment_id, amount, type, status, tx, error) ==
    [id |-> id, payment_id |-> payment_id, amount |-> amount, type |-> type,
     status |-> status, ptx |-> tx, error_message |-> error]

\* save of a Transaction: insert, or update of the row with the same id
UpsertTx(rows, t) == {x \in rows : x.id # t.id} \cup {t}

\* ProcessPaymentResponse and its cached (serialized) form
Response(pay) ==
    [payment_id |-> pay.id, status |-> pay.status,
     provider_transaction_id |-> pay.ptx, created_at |-> pay.created_at]

Serialize(resp) == [resp EXCEPT !.created_at = isoformat(resp.created_at)]

Deserialize(cached) == [cached EXCEPT !.created_at = fromisoformat(cached.created_at)]

\* RefundPaymentResponse; str(Amount) is "<value> <currency>"
RefundResponse(pay, x, refund_tx_id, created_at) ==
    [payment_id |-> pay.id, refund_amount |-> Amount_str(x), status |-> pay.status,
     refund_transaction_id |-> refund_tx_id, created_at |-> created_at]

\* ProcessPaymentResponse(**cached) / RefundPaymentResponse(**cached) accept
\* only the keyword arguments of their own dataclass (TypeError otherwise).
IsRefundRecord(cached) == "refund_amount" \in DOMAIN cached

\* ------------------------------------------------------------------ Init
NoResponse == [payment_id |-> 0, status |-> "", provider_transaction_id |-> NoTx,
               created_at |-> DateTimeOf(0)]

NoTransaction == Transaction(<<0, 0>>, 0, 0, "", "", NoTx, NoText)

IdleRelay ==
    [pc |-> "sleep", batch |-> <<>>, attempt |-> 1, count |-> 0,
     snap |-> {}, failed |-> {}, failed_events |-> <<>>, failed_count |-> 0,
     cancelled_at |-> ""]

IdleRefund ==
    [pc |-> "idle", key |-> 0, payment_id |-> 0, amount |-> 0,
     pay |-> NewPayment(0, zero(USD), DateTimeOf(0)), refund_amount |-> zero(USD),
     loaded |-> NewPayment(0, zero(USD), DateTimeOf(0)),
     refund_tx_id |-> NoTx, tx |-> NoTransaction, created_at |-> DateTimeOf(0),
     exc |-> NoError, dup |-> FALSE, hit |-> FALSE, result |-> <<>>]

IdleProc ==
    [pc |-> "idle", key |-> 0, pay |-> NewPayment(0, zero(USD), DateTimeOf(0)),
     tx |-> NoTransaction, nobj |-> 0,
     exc |-> NoError, orig |-> NoError, result |-> NoResponse,
     dup |-> FALSE, hit |-> FALSE, charged |-> FALSE, conc |-> {}, prior |-> {}]

NoArg == <<>>         \* a call without argument

\* The object after construction, with the record of its calls: the object
\* before the last call, that call, its argument and the exception it raised,
\* the exception of the call before it, the object as constructed, whether it
\* was constructed as a new PENDING payment, whether only refund was called,
\* and the number and sum of the accepted refunds.
Constructed(pay) ==
    [pay |-> pay, before |-> pay, op |-> "new", arg |-> NoArg, err |-> NoError,
     prev |-> NoError, start |-> pay, fresh |-> FALSE, only_refunds |-> TRUE,
     accepted |-> 0, sum |-> 0, calls |-> 0]

NoEntity == Constructed(NewPayment(0, zero(USD), DateTimeOf(0)))

\* The services right after start: empty stores, nothing in progress.
\* asyncio.create_task(self._run()): a task that has not run yet
NewTask == [pc |-> "new", cancel |-> FALSE, raised |-> FALSE]

NoTask == 0           \* self._task = None

\* OutboxWorker.__init__
NewWorker ==
    [running |-> FALSE, task |-> NoTask, tasks |-> <<>>, stopping |-> {}, last |-> ""]

Start ==
    /\ worker = NewWorker
    /\ idem = <<>>
    /\ payments = <<>>
    /\ ledger = {}
    /\ outbox = {}
    /\ saved = {}
    /\ pending = [r \in Runs |-> {}]
    /\ proc = [r \in Runs |-> IdleProc]
    /\ clock \in 0..(TicksPerSecond - 1)
    /\ faults = 0
    /\ chargeCalls = [k \in Keys |-> 0]
    /\ chargeOk = [k \in Keys |-> 0]
    /\ expired = [k \in Keys |-> FALSE]
    /\ rproc = [f \in Refunds |-> IdleRefund]
    /\ refundLog = <<>>
    /\ bus = <<>>
    /\ relay = IdleRelay

\* No Amount computation has been made.
NoCalc ==
    [op |-> "none", a |-> zero(USD), b |-> zero(USD), err |-> NoError, amt |-> zero(USD),
     pop |-> "none", pa |-> zero(USD), pb |-> zero(USD), perr |-> NoError, n |-> 0]

Init == Start /\ entity = NoEntity /\ calc = NoCalc

\* ------------------------------------------------------------------ helpers
Now == DateTimeOf(clock)

InProgress(q) == proc[q].pc \notin {"idle", "returned", "raised", "closed"}
Finished(q) == proc[q].pc \in {"returned", "raised", "closed"}

\* An infrastructure call either succeeds or raises; raises are bounded.
MayFail(ok) == ok \/ faults < MaxFaults
CountFault(ok) == faults' = IF ok THEN faults ELSE faults + 1

\* AsyncSession.commit() of the request session of run r: the flushed outbox
\* rows become durable together with the row being saved.
Commit(r) ==
    /\ outbox' = outbox \cup pending[r]
    /\ pending' = [pending EXCEPT ![r] = {}]

\* A failed flush/commit rolls the session's open transaction back.
Rollback(r) ==
    /\ outbox' = outbox
    /\ pending' = [pending EXCEPT ![r] = {}]

\* Entry of the `except Exception as e` block of ProcessPayment.execute:
\* payment.mark_failed() runs first and may itself raise.
Except(p, e) ==
    LET m == mark_failed(p.pay, Now)
    IN  IF m.err # NoError
        THEN [p EXCEPT !.pc = "raised", !.exc = m.err, !.orig = e]
        ELSE [p EXCEPT !.pay = m.pay, !.pc = "x_save_payment", !.exc = e, !.orig = e]

\* Payment(...) followed at once by the gateway call
CreatePayment_unsaved(p, r) ==
    [p EXCEPT !.pay = NewPayment(r, Amount(PayAmount, USD).amt, Now),
              !.pc = "charge"]

\* The code between the idempotency check and the first save: Payment(...)
CreatePayment(p, r) ==
    [p EXCEPT !.pay = NewPayment(r, Amount(PayAmount, USD).amt, Now),
              !.pc = "save_pending"]

\* if cached: return ProcessPaymentResponse(**cached) with created_at parsed
ReturnCached(p, cached) ==
    [p EXCEPT !.pc = "returned", !.hit = TRUE, !.result = Deserialize(cached)]

\* ------------------------------------------------------------------ ProcessPayment.execute
\* A client submits a request with idempotency key k.
PPStart(r, k) ==
    /\ proc[r].pc = "idle"
    /\ \A q \in Runs : q < r => proc[q].pc # "idle"
    /\ proc' = [proc EXCEPT ![r] = [@ EXCEPT !.pc = "is_duplicate", !.key = k,
                    !.conc = {q \in Runs : InProgress(q)},
                    !.prior = {q \in Runs : Finished(q)}]]
    /\ UNCHANGED <<worker, calc, entity, idem, payments, ledger, outbox, saved, pending, clock, faults,
                   chargeCalls, chargeOk, expired,
                   rproc, refundLog, bus, relay>>

\* await self._idempotency.is_duplicate(key)
PPIsDuplicate(r) ==
    /\ proc[r].pc = "is_duplicate"
    /\ IF is_duplicate(proc[r].key)
       THEN /\ proc' = [proc EXCEPT ![r] = [@ EXCEPT !.pc = "get_result", !.dup = TRUE]]
            /\ clock' = clock
       ELSE /\ proc' = [proc EXCEPT ![r] = CreatePayment(@, r)]
            /\ clock' = clock + 1
    /\ UNCHANGED <<worker, calc, entity, idem, payments, ledger, outbox, saved, pending, faults,
                   chargeCalls, chargeOk, expired,
                   rproc, refundLog, bus, relay>>

\* cached = await self._idempotency.get_result(key); if cached: return ...
PPGetResult(r) ==
    /\ proc[r].pc = "get_result"
    /\ IF proc[r].key \in DOMAIN idem
       THEN /\ proc' = [proc EXCEPT ![r] =
                   IF IsRefundRecord(idem[proc[r].key])
                   THEN [@ EXCEPT !.pc = "raised", !.exc = "TypeError", !.orig = "TypeError"]
                   ELSE ReturnCached(@, idem[proc[r].key])]
            /\ clock' = clock
       ELSE /\ proc' = [proc EXCEPT ![r] = CreatePayment(@, r)]
            /\ clock' = clock + 1
    /\ UNCHANGED <<worker, calc, entity, idem, payments, ledger, outbox, saved, pending, faults,
                   chargeCalls, chargeOk, expired,
                   rproc, refundLog, bus, relay>>

\* await self._payment_repo.save(payment)   (status PENDING, before the try)
PPSavePending(r) ==
    /\ proc[r].pc = "save_pending"
    /\ \E ok \in BOOLEAN :
        /\ MayFail(ok)
        /\ CountFault(ok)
        /\ IF ok
           THEN /\ payments' = (r :> PaymentRow(proc[r].pay)) @@ payments
                /\ Commit(r)
                /\ proc' = [proc EXCEPT ![r].pc = "outbox_created"]
           ELSE /\ payments' = payments
                /\ Rollback(r)
                /\ proc' = [proc EXCEPT ![r] = [@ EXCEPT !.pc = "raised",
                               !.exc = "DatabaseError", !.orig = "DatabaseError"]]
    /\ UNCHANGED <<worker, calc, entity, saved, idem, ledger, clock, chargeCalls, chargeOk, expired,
                   rproc, refundLog, bus, relay>>

\* await self._save_event_to_outbox(... "PaymentCreated" ...)
PPOutboxCreated(r) ==
    /\ proc[r].pc = "outbox_created"
    /\ \E ok \in BOOLEAN :
        /\ MayFail(ok)
        /\ CountFault(ok)
        /\ IF ok
           THEN /\ pending' = [pending EXCEPT ![r] = @ \cup
                      {OutboxEvent(r, proc[r].nobj + 1, "PaymentCreated", Now)}]
                /\ saved' = saved \cup
                      {OutboxEvent(r, proc[r].nobj + 1, "PaymentCreated", Now)}
                /\ proc' = [proc EXCEPT ![r] = [@ EXCEPT !.pc = "charge", !.nobj = @ + 1]]
           ELSE /\ pending' = [pending EXCEPT ![r] = {}]
                /\ saved' = saved
                /\ proc' = [proc EXCEPT ![r] = [@ EXCEPT !.pc = "raised",
                               !.exc = "DatabaseError", !.orig = "DatabaseError"]]
    /\ clock' = clock + 1
    /\ UNCHANGED <<worker, calc, entity, idem, payments, ledger, outbox, chargeCalls, chargeOk, expired,
                   rproc, refundLog, bus, relay>>

\* provider_tx_id = await self._provider.charge(...); payment.mark_processing(...)
PPCharge(r) ==
    /\ proc[r].pc = "charge"
    /\ LET k == proc[r].key
           n == chargeCalls[k] + 1
       IN  /\ chargeCalls' = [chargeCalls EXCEPT ![k] = n]
           /\ \E ok \in BOOLEAN :
                IF ok
                THEN LET m == mark_processing(proc[r].pay, <<"ch", k, n>>, Now)
                     IN  /\ chargeOk' = [chargeOk EXCEPT ![k] = @ + 1]
                         /\ proc' = [proc EXCEPT ![r] =
                               IF m.err # NoError
                               THEN Except([@ EXCEPT !.charged = TRUE], m.err)
                               ELSE [@ EXCEPT !.pay = m.pay, !.charged = TRUE,
                                              !.pc = "save_processing"]]
                ELSE /\ chargeOk' = chargeOk
                     /\ proc' = [proc EXCEPT ![r] =
                           Except([@ EXCEPT !.charged = TRUE], "PaymentProviderError")]
    /\ UNCHANGED <<worker, calc, entity, idem, payments, ledger, outbox, saved, pending, clock, faults, expired,
                   rproc, refundLog, bus, relay>>

\* A payment_repo.save inside the try block; on success the run goes on as
\* `next`.
TrySavePayment(r, at, next) ==
    /\ proc[r].pc = at
    /\ \E ok \in BOOLEAN :
        /\ MayFail(ok)
        /\ CountFault(ok)
        /\ IF ok
           THEN /\ payments' = (r :> PaymentRow(proc[r].pay)) @@ payments
                /\ Commit(r)
                /\ proc' = [proc EXCEPT ![r] = next]
           ELSE /\ payments' = payments
                /\ Rollback(r)
                /\ proc' = [proc EXCEPT ![r] = Except(@, "DatabaseError")]
    /\ UNCHANGED <<worker, calc, entity, saved, idem, ledger, clock, chargeCalls, chargeOk, expired,
                   rproc, refundLog, bus, relay>>

\* A transaction_repo.save inside the try block.
TrySaveTx(r, at, next) ==
    /\ proc[r].pc = at
    /\ \E ok \in BOOLEAN :
        /\ MayFail(ok)
        /\ CountFault(ok)
        /\ IF ok
           THEN /\ ledger' = UpsertTx(ledger, proc[r].tx)
                /\ Commit(r)
                /\ proc' = [proc EXCEPT ![r] = next]
           ELSE /\ ledger' = ledger
                /\ Rollback(r)
                /\ proc' = [proc EXCEPT ![r] = Except(@, "DatabaseError")]
    /\ UNCHANGED <<worker, calc, entity, saved, idem, payments, clock, chargeCalls, chargeOk, expired,
                   rproc, refundLog, bus, relay>>

\* transaction = Transaction(..., status=PROCESSING, provider_transaction_id=...)
NewChargeTx(p) ==
    [p EXCEPT !.tx = Transaction(<<p.pay.id, p.nobj + 1>>, p.pay.id, p.pay.amount,
                                 "charge", "processing", p.pay.ptx, NoText),
              !.nobj = @ + 1, !.pc = "save_tx_processing"]

\* payment.mark_completed(); transaction.status = COMPLETED
Complete(p) ==
    LET m == mark_completed(p.pay, Now)
    IN  IF m.err # NoError THEN Except(p, m.err)
        ELSE [p EXCEPT !.pay = m.pay, !.tx = [@ EXCEPT !.status = "completed"],
                       !.pc = "save_completed"]

GoSaveTxCompleted(p) == [p EXCEPT !.pc = "save_tx_completed"]
\* The PaymentCompleted outbox write left out.
SkipOutboxCompleted(p) == [p EXCEPT !.pc = "store_result"]

GoOutboxCompleted(p) == [p EXCEPT !.pc = "outbox_completed"]

\* await self._payment_repo.save(payment)   (status PROCESSING)
PPSaveProcessing(r) == TrySavePayment(r, "save_processing", NewChargeTx(proc[r]))

\* await self._transaction_repo.save(transaction)   (status PROCESSING)
PPSaveTxProcessing(r) == TrySaveTx(r, "save_tx_processing", Complete(proc[r]))

\* await self._payment_repo.save(payment)   (status COMPLETED)
PPSaveCompleted(r) == TrySavePayment(r, "save_completed", GoSaveTxCompleted(proc[r]))

\* await self._transaction_repo.save(transaction)   (status COMPLETED)
PPSaveTxCompleted(r) == TrySaveTx(r, "save_tx_completed", GoOutboxCompleted(proc[r]))

\* await self._save_event_to_outbox(... "PaymentCompleted" ...)
PPOutboxCompleted(r) ==
    /\ proc[r].pc = "outbox_completed"
    /\ \E ok \in BOOLEAN :
        /\ MayFail(ok)
        /\ CountFault(ok)
        /\ IF ok
           THEN /\ pending' = [pending EXCEPT ![r] = @ \cup
                      {OutboxEvent(r, proc[r].nobj + 1, "PaymentCompleted", Now)}]
                /\ saved' = saved \cup
                      {OutboxEvent(r, proc[r].nobj + 1, "PaymentCompleted", Now)}
                /\ proc' = [proc EXCEPT ![r] = [@ EXCEPT !.pc = "store_result", !.nobj = @ + 1]]
           ELSE /\ pending' = [pending EXCEPT ![r] = {}]
                /\ saved' = saved
                /\ proc' = [proc EXCEPT ![r] = Except(@, "DatabaseError")]
    /\ clock' = clock + 1
    /\ UNCHANGED <<worker, calc, entity, idem, payments, ledger, outbox, chargeCalls, chargeOk, expired,
                   rproc, refundLog, bus, relay>>

\* await self._idempotency.store_result(key, {...}); return response
PPStoreResult(r) ==
    /\ proc[r].pc = "store_result"
    /\ \E ok \in BOOLEAN :
        /\ MayFail(ok)
        /\ CountFault(ok)
        /\ IF ok
           THEN /\ idem' = (proc[r].key :> Serialize(Response(proc[r].pay))) @@ idem
                /\ proc' = [proc EXCEPT ![r] = [@ EXCEPT !.pc = "returned",
                               !.result = Response(proc[r].pay)]]
           ELSE /\ idem' = idem
                /\ proc' = [proc EXCEPT ![r] = Except(@, "RedisError")]
    /\ UNCHANGED <<worker, calc, entity, payments, ledger, outbox, saved, pending, clock, chargeCalls, chargeOk, expired,
                   rproc, refundLog, bus, relay>>

\* except block: await self._payment_repo.save(payment)   (status FAILED)
PPExceptSavePayment(r) ==
    /\ proc[r].pc = "x_save_payment"
    /\ \E ok \in BOOLEAN :
        /\ MayFail(ok)
        /\ CountFault(ok)
        /\ IF ok
           THEN /\ payments' = (r :> PaymentRow(proc[r].pay)) @@ payments
                /\ Commit(r)
                /\ proc' = [proc EXCEPT ![r] = [@ EXCEPT !.pc = "x_save_tx", !.nobj = @ + 1,
                               !.tx = Transaction(<<r, proc[r].nobj + 1>>, r, proc[r].pay.amount,
                                      "charge", "failed", NoTx, str(proc[r].orig))]]
           ELSE /\ payments' = payments
                /\ Rollback(r)
                /\ proc' = [proc EXCEPT ![r] = [@ EXCEPT !.pc = "raised", !.exc = "DatabaseError"]]
    /\ UNCHANGED <<worker, calc, entity, saved, idem, ledger, clock, chargeCalls, chargeOk, expired,
                   rproc, refundLog, bus, relay>>

\* except block: await self._transaction_repo.save(failed_tx)
PPExceptSaveTx(r) ==
    /\ proc[r].pc = "x_save_tx"
    /\ \E ok \in BOOLEAN :
        /\ MayFail(ok)
        /\ CountFault(ok)
        /\ IF ok
           THEN /\ ledger' = UpsertTx(ledger, proc[r].tx)
                /\ Commit(r)
                /\ proc' = [proc EXCEPT ![r].pc = "x_outbox_failed"]
           ELSE /\ ledger' = ledger
                /\ Rollback(r)
                /\ proc' = [proc EXCEPT ![r] = [@ EXCEPT !.pc = "raised", !.exc = "DatabaseError"]]
    /\ UNCHANGED <<worker, calc, entity, saved, idem, payments, clock, chargeCalls, chargeOk, expired,
                   rproc, refundLog, bus, relay>>

\* except block: await self._save_event_to_outbox(... "PaymentFailed" ...); raise
PPExceptOutboxFailed(r) ==
    /\ proc[r].pc = "x_outbox_failed"
    /\ \E ok \in BOOLEAN :
        /\ MayFail(ok)
        /\ CountFault(ok)
        /\ IF ok
           THEN /\ pending' = [pending EXCEPT ![r] = @ \cup
                      {OutboxEvent(r, proc[r].nobj + 1, "PaymentFailed", Now)}]
                /\ saved' = saved \cup
                      {OutboxEvent(r, proc[r].nobj + 1, "PaymentFailed", Now)}
                /\ proc' = [proc EXCEPT ![r] = [@ EXCEPT !.pc = "raised", !.nobj = @ + 1,
                               !.exc = proc[r].orig]]
           ELSE /\ pending' = [pending EXCEPT ![r] = {}]
                /\ saved' = saved
                /\ proc' = [proc EXCEPT ![r] = [@ EXCEPT !.pc = "raised", !.exc = "DatabaseError"]]
    /\ clock' = clock + 1
    /\ UNCHANGED <<worker, calc, entity, idem, payments, ledger, outbox, chargeCalls, chargeOk, expired,
                   rproc, refundLog, bus, relay>>

\* get_db_session: the request session is closed when the request ends;
\* rows flushed and never committed are rolled back.
PPCloseSession(r) ==
    /\ proc[r].pc \in {"returned", "raised"}
    /\ proc' = [proc EXCEPT ![r].pc = "closed"]
    /\ pending' = [pending EXCEPT ![r] = {}]
    /\ UNCHANGED <<worker, calc, entity, idem, payments, ledger, outbox, saved, clock, faults,
                   chargeCalls, chargeOk, expired,
                   rproc, refundLog, bus, relay>>

\* run_command_worker: every command runs on the one session the worker
\* opened at start, which stays open when a command ends; the rows a command
\* flushed and did not commit wait in it for the next command's commit.
PPKeepSession(r) ==
    /\ proc[r].pc \in {"returned", "raised"}
    /\ proc' = [proc EXCEPT ![r].pc = "closed"]
    /\ pending' = IF r + 1 \in Runs
                  THEN [pending EXCEPT ![r] = {}, ![r + 1] = pending[r + 1] \cup pending[r]]
                  ELSE pending
    /\ UNCHANGED <<worker, calc, entity, idem, payments, ledger, outbox, saved, clock, faults,
                   chargeCalls, chargeOk, expired,
                   rproc, refundLog, bus, relay>>

\* ------------------------------------------------------------------ RefundPayment.execute
\* A client asks to refund payment pid: x = 0 stands for amount=None (full
\* refund), k = 0 for idempotency_key=None (replaced by a fresh uuid4).
RFStart(f, pid, x, k) ==
    /\ rproc[f].pc = "idle"
    /\ \A g \in Refunds : g < f => rproc[g].pc # "idle"
    /\ rproc' = [rproc EXCEPT ![f] = [@ EXCEPT !.pc = "is_duplicate",
                     !.payment_id = pid, !.amount = x,
                     !.key = IF k = 0 THEN -f ELSE k]]
    /\ UNCHANGED <<worker, calc, entity, orch, refundLog, bus, relay>>

\* await self._idempotency.is_duplicate(idempotency_key)
RFIsDuplicate(f) ==
    /\ rproc[f].pc = "is_duplicate"
    /\ rproc' = [rproc EXCEPT ![f] =
                    IF is_duplicate(rproc[f].key)
                    THEN [@ EXCEPT !.pc = "get_result", !.dup = TRUE]
                    ELSE [@ EXCEPT !.pc = "get_by_id"]]
    /\ UNCHANGED <<worker, calc, entity, orch, refundLog, bus, relay>>

\* cached = await self._idempotency.get_result(key); if cached: return ...
RFGetResult(f) ==
    /\ rproc[f].pc = "get_result"
    /\ rproc' = [rproc EXCEPT ![f] =
          IF rproc[f].key \notin DOMAIN idem THEN [@ EXCEPT !.pc = "get_by_id"]
          ELSE IF ~IsRefundRecord(idem[rproc[f].key])
          THEN [@ EXCEPT !.pc = "raised", !.exc = "TypeError"]
          ELSE [@ EXCEPT !.pc = "returned", !.hit = TRUE, !.result = idem[rproc[f].key]]]
    /\ UNCHANGED <<worker, calc, entity, orch, refundLog, bus, relay>>

\* payment = await self._payment_repo.get_by_id(...) and the validations
RFGetById(f) ==
    /\ rproc[f].pc = "get_by_id"
    /\ rproc' = [rproc EXCEPT ![f] =
          IF rproc[f].payment_id \notin DOMAIN payments
          THEN [@ EXCEPT !.pc = "raised", !.exc = "PaymentNotFoundError"]
          ELSE LET pay == payments[rproc[f].payment_id]
                   x == IF rproc[f].amount # 0
                        THEN Amount(rproc[f].amount, pay.amount.currency)
                        ELSE remaining_refundable_amount(pay)
               IN  IF x.err # NoError
                   THEN [@ EXCEPT !.pc = "raised", !.exc = x.err, !.pay = pay,
                                  !.loaded = pay]
                   ELSE IF ~can_refund(pay.status) \/ pay.ptx = NoTx
                   THEN [@ EXCEPT !.pc = "raised", !.exc = "ValueError", !.pay = pay,
                                  !.loaded = pay]
                   ELSE [@ EXCEPT !.pc = "refund", !.pay = pay, !.loaded = pay,
                                  !.refund_amount = x.amt]]
    /\ UNCHANGED <<worker, calc, entity, orch, refundLog, bus, relay>>

\* refund_tx_id = await self._provider.refund(...); payment.refund(refund_amount)
RFRefund(f) ==
    /\ rproc[f].pc = "refund"
    /\ \E ok \in BOOLEAN :
        IF ok
        THEN LET id == <<"re", rproc[f].key, Len(refundLog) + 1>>
                 m == refund(rproc[f].pay, rproc[f].refund_amount, Now)
             IN  /\ refundLog' = Append(refundLog,
                        [payment_id |-> rproc[f].pay.id, amount |-> rproc[f].refund_amount])
                 /\ rproc' = [rproc EXCEPT ![f] =
                        IF m.err # NoError
                        THEN [@ EXCEPT !.pc = "raised", !.exc = m.err, !.refund_tx_id = id]
                        ELSE [@ EXCEPT !.pc = "save_payment", !.pay = m.pay,
                                       !.refund_tx_id = id]]
        ELSE /\ refundLog' = refundLog
             /\ rproc' = [rproc EXCEPT ![f] =
                    [@ EXCEPT !.pc = "raised", !.exc = "PaymentProviderError"]]
    /\ UNCHANGED <<worker, calc, entity, orch, bus, relay>>

\* await self._payment_repo.save(payment); transaction = Transaction(...)
RFSavePayment(f) ==
    /\ rproc[f].pc = "save_payment"
    /\ \E ok \in BOOLEAN :
        /\ MayFail(ok)
        /\ CountFault(ok)
        /\ IF ok
           THEN /\ payments' = (rproc[f].pay.id :> PaymentRow(rproc[f].pay)) @@ payments
                /\ rproc' = [rproc EXCEPT ![f] = [@ EXCEPT !.pc = "save_tx",
                       !.created_at = Now,
                       !.tx = Transaction(<<-f, 1>>, rproc[f].pay.id, rproc[f].refund_amount,
                                 "refund", "completed", rproc[f].refund_tx_id, NoText)]]
                /\ clock' = clock + 1
           ELSE /\ payments' = payments
                /\ rproc' = [rproc EXCEPT ![f] = [@ EXCEPT !.pc = "raised", !.exc = "DatabaseError"]]
                /\ clock' = clock
    /\ UNCHANGED <<worker, calc, entity, idem, ledger, outbox, saved, pending, proc, chargeCalls, chargeOk, expired,
                   refundLog, bus, relay>>

\* await self._transaction_repo.save(transaction)
RFSaveTx(f) ==
    /\ rproc[f].pc = "save_tx"
    /\ \E ok \in BOOLEAN :
        /\ MayFail(ok)
        /\ CountFault(ok)
        /\ IF ok
           THEN /\ ledger' = UpsertTx(ledger, rproc[f].tx)
                /\ rproc' = [rproc EXCEPT ![f].pc = "publish"]
           ELSE /\ ledger' = ledger
                /\ rproc' = [rproc EXCEPT ![f] = [@ EXCEPT !.pc = "raised", !.exc = "DatabaseError"]]
    /\ UNCHANGED <<worker, calc, entity, idem, payments, outbox, saved, pending, proc, clock, chargeCalls, chargeOk,
                   expired, refundLog, bus, relay>>

\* await self._events.publish_payment_refunded(payment, str(refund_amount))
RFPublish(f) ==
    /\ rproc[f].pc = "publish"
    /\ \E ok \in BOOLEAN :
        /\ MayFail(ok)
        /\ CountFault(ok)
        /\ IF ok
           THEN /\ bus' = Append(bus, [event_type |-> "payment.refunded",
                                       payment_id |-> rproc[f].pay.id,
                                       refund_amount |-> Amount_str(rproc[f].refund_amount),
                                       status |-> rproc[f].pay.status])
                /\ rproc' = [rproc EXCEPT ![f].pc = "store_result"]
           ELSE /\ bus' = bus
                /\ rproc' = [rproc EXCEPT ![f] = [@ EXCEPT !.pc = "raised", !.exc = "PublishError"]]
    /\ UNCHANGED <<worker, calc, entity, idem, payments, ledger, outbox, saved, pending, proc, clock, chargeCalls,
                   chargeOk, expired, refundLog, relay>>

\* await self._idempotency.store_result(idempotency_key, {...}); return response
RFStoreResult(f) ==
    /\ rproc[f].pc = "store_result"
    /\ LET resp == RefundResponse(rproc[f].pay, rproc[f].refund_amount,
                                  rproc[f].refund_tx_id, rproc[f].created_at)
       IN  \E ok \in BOOLEAN :
            /\ MayFail(ok)
            /\ CountFault(ok)
            /\ IF ok
               THEN /\ idem' = (rproc[f].key :> Serialize(resp)) @@ idem
                    /\ rproc' = [rproc EXCEPT ![f] = [@ EXCEPT !.pc = "returned", !.result = resp]]
               ELSE /\ idem' = idem
                    /\ rproc' = [rproc EXCEPT ![f] = [@ EXCEPT !.pc = "raised", !.exc = "RedisError"]]
    /\ UNCHANGED <<worker, calc, entity, payments, ledger, outbox, saved, pending, proc, clock, chargeCalls, chargeOk,
                   expired, refundLog, bus, relay>>

\* Redis drops the record of key k when its TTL (setex) has elapsed.
Expire(k) ==
    /\ k \in DOMAIN idem
    /\ idem' = [j \in DOMAIN idem \ {k} |-> idem[j]]
    /\ expired' = IF k \in Keys THEN [expired EXCEPT ![k] = TRUE] ELSE expired
    /\ UNCHANGED <<worker, calc, entity, payments, ledger, outbox, saved, pending, proc, clock, faults,
                   chargeCalls, chargeOk, rproc, refundLog, bus, relay>>

\* ------------------------------------------------------------------ outbox repository
Stamp(d) == d.sec * TicksPerSecond + d.usec

RECURSIVE OrderByCreatedAt(_)
OrderByCreatedAt(rows) ==
    IF rows = {} THEN <<>>
    ELSE LET first == CHOOSE x \in rows :
                 \A y \in rows : Stamp(x.created_at) <= Stamp(y.created_at)
         IN  <<first>> \o OrderByCreatedAt(rows \ {first})

Take(seq, n) == SubSeq(seq, 1, IF Len(seq) < n THEN Len(seq) ELSE n)

\* PostgreSQLOutboxRepository.get_unpublished, read by the relay's own session
get_unpublished(limit) ==
    Take(OrderByCreatedAt({e \in outbox : ~e.published}), limit)

\* mark_published that also clears the attempts counter
mark_published_reset(rows, id) ==
    {IF e.id = id THEN [e EXCEPT !.published = TRUE, !.attempts = 0] ELSE e : e \in rows}

\* PostgreSQLOutboxRepository.mark_published (committed by the session-managed wrapper)
mark_published(rows, id) ==
    {IF e.id = id THEN [e EXCEPT !.published = TRUE] ELSE e : e \in rows}

\* PostgreSQLOutboxRepository.increment_attempts
increment_attempts(rows, id, error) ==
    {IF e.id = id THEN [e EXCEPT !.attempts = @ + 1, !.last_error = error] ELSE e : e \in rows}

\* get_failed without the "published_at IS NULL" condition
get_failed_any(max_attempts) ==
    OrderByCreatedAt({e \in outbox : e.attempts >= max_attempts})

\* PostgreSQLOutboxRepository.get_failed
get_failed(max_attempts) ==
    OrderByCreatedAt({e \in outbox : e.attempts >= max_attempts /\ ~e.published})

\* ------------------------------------------------------------------ OutboxPublisherService
\* events = await self._outbox_repo.get_unpublished(limit=batch_size)
RelayPoll ==
    /\ relay.pc = "sleep"
    /\ LET events == get_unpublished(BatchSize)
       IN  relay' = [pc |-> "publish",
                     batch |-> [i \in 1..Len(events) |-> events[i].id],
                     attempt |-> 1, count |-> 0,
                     snap |-> {<<events[i].id, events[i].attempts>> : i \in 1..Len(events)},
                     failed |-> {},
                     failed_events |-> relay.failed_events,
                     failed_count |-> relay.failed_count,
                     cancelled_at |-> relay.cancelled_at]
    /\ UNCHANGED <<worker, calc, entity, orch, rproc, refundLog, bus>>

\* The loop variable moves to the next event of the batch.
NextEvent(published) ==
    [relay EXCEPT !.batch = Tail(@), !.attempt = 1,
                  !.count = IF published THEN @ + 1 ELSE @]

\* tenacity: the call is repeated until attempt RetryAttempts, then the error
\* is re-raised into publish_pending_events, which swallows it.
RetryOrGiveUp ==
    IF relay.attempt < RetryAttempts
    THEN [relay EXCEPT !.attempt = @ + 1]
    ELSE [NextEvent(FALSE) EXCEPT !.failed = @ \cup {Head(relay.batch)}]

\* One call of _publish_event_with_retry for the event at the head of the
\* batch.  outcome: "ok", the first mark_published raises ("fail_first"), or
\* the second one does ("fail_second"); the handler's increment_attempts is
\* taken to succeed.
RelayAttempt(outcome) ==
    /\ relay.pc = "publish"
    /\ relay.batch # <<>>
    /\ LET id == Head(relay.batch)
           fresh == get_unpublished(FreshLimit)
           found == {e \in {fresh[i] : i \in 1..Len(fresh)} : e.id = id}
       IN  IF found = {}
           THEN \* already published or deleted: returns normally
                /\ outcome = "ok"
                /\ outbox' = outbox
                /\ relay' = NextEvent(TRUE)
           ELSE LET event == CHOOSE e \in found : TRUE
                    marked == IF outcome = "fail_first" THEN outbox
                              ELSE mark_published(outbox, id)
                IN  IF outcome = "ok"
                    THEN /\ outbox' = mark_published(marked, id)
                         /\ relay' = NextEvent(TRUE)
                    ELSE /\ event.attempts < MaxEventAttempts
                         /\ outbox' = increment_attempts(marked, id, str("DatabaseError"))
                         /\ relay' = RetryOrGiveUp
    /\ UNCHANGED <<worker, calc, entity, idem, payments, ledger, saved, pending, proc, clock, faults,
                   chargeCalls, chargeOk, expired, rproc, refundLog, bus>>

\* return published_count (the worker loop goes on to count the failed events)
RelayReturn ==
    /\ relay.pc = "publish"
    /\ relay.batch = <<>>
    /\ relay' = [relay EXCEPT !.pc = "count"]
    /\ UNCHANGED <<worker, calc, entity, orch, rproc, refundLog, bus>>

\* OutboxPublisherService.get_failed_events_count, called by OutboxWorker._run
\* after publish_pending_events; the worker then sleeps for the interval.
RelayCountFailed ==
    /\ relay.pc = "count"
    /\ LET failed_events == get_failed(ServiceMaxAttempts)
       IN  relay' = [relay EXCEPT !.pc = "sleep",
                                  !.failed_events = failed_events,
                                  !.failed_count = Len(failed_events)]
    /\ UNCHANGED <<worker, calc, entity, orch, rproc, refundLog, bus>>

\* publish_pending_events(batch_size) called with a batch_size of MaxBatch.
RelayPollBatch ==
    /\ relay.pc = "sleep"
    /\ LET events == get_unpublished(MaxBatch)
       IN  relay' = [relay EXCEPT !.pc = "publish",
                        !.batch = [i \in 1..Len(events) |-> events[i].id],
                        !.attempt = 1, !.count = 0,
                        !.snap = {<<events[i].id, events[i].attempts>> : i \in 1..Len(events)},
                        !.failed = {}]
    /\ UNCHANGED <<worker, calc, entity, orch, rproc, refundLog, bus>>

\* increment_attempts with the counter kept at MaxEventAttempts once it is
\* there: the program compares attempts only with max_attempts, which is
\* smaller, so larger values behave alike.
increment_attempts_capped(rows, id, error) ==
    {IF e.id = id
     THEN [e EXCEPT !.attempts = IF @ < MaxEventAttempts THEN @ + 1 ELSE @,
                    !.last_error = error]
     ELSE e : e \in rows}

\* _publish_event_with_retry for the head of the batch, where an event may
\* fail on every attempt of every tick.
RelayAttemptAlways(outcome) ==
    /\ relay.pc = "publish"
    /\ relay.batch # <<>>
    /\ LET id == Head(relay.batch)
           fresh == get_unpublished(FreshLimit)
           found == {e \in {fresh[i] : i \in 1..Len(fresh)} : e.id = id}
       IN  IF found = {}
           THEN /\ outcome = "ok"
                /\ outbox' = outbox
                /\ relay' = NextEvent(TRUE)
           ELSE LET marked == IF outcome = "fail_first" THEN outbox
                              ELSE mark_published(outbox, id)
                IN  IF outcome = "ok"
                    THEN /\ outbox' = mark_published(marked, id)
                         /\ relay' = NextEvent(TRUE)
                    ELSE /\ outbox' = increment_attempts_capped(marked, id, str("DatabaseError"))
                         /\ relay' = RetryOrGiveUp
    /\ UNCHANGED <<worker, calc, entity, idem, payments, ledger, saved, pending, proc, clock, faults,
                   chargeCalls, chargeOk, expired, rproc, refundLog, bus>>

StarveRelayStep ==
    \/ RelayPollBatch
    \/ \E outcome \in {"ok", "fail_first", "fail_second"} : RelayAttemptAlways(outcome)
    \/ RelayReturn
    \/ RelayCountFailed

\* The awaits of _publish_event_with_retry at which the relay task can be
\* suspended while an event is in flight ("wait" is tenacity's sleep between
\* two attempts).
CancelPoints ==
    {"get_unpublished", "mark_published", "second_mark_published",
     "increment_attempts", "wait"}

\* OutboxWorker.stop: _running = False, self._task.cancel(), await self._task.
\* cancel() raises CancelledError inside the task at the await where it is
\* suspended; no "except Exception" of the relay catches it, so the task ends
\* there.  An await that is cancelled has no effect on the outbox; at the
\* second mark_published the first one has already been committed.
WorkerStop(at) ==
    /\ relay.pc # "stopped"
    /\ IF relay.pc = "publish" /\ relay.batch # <<>>
       THEN /\ at \in CancelPoints
            /\ at = "wait" => relay.attempt > 1
            /\ at \in {"mark_published", "second_mark_published", "increment_attempts"}
                    => \E e \in outbox : e.id = Head(relay.batch) /\ ~e.published
            /\ outbox' = IF at = "second_mark_published"
                         THEN mark_published(outbox, Head(relay.batch))
                         ELSE outbox
       ELSE /\ at = "sleep"
            /\ outbox' = outbox
    /\ relay' = [relay EXCEPT !.pc = "stopped", !.cancelled_at = at]
    /\ UNCHANGED <<worker, calc, entity, idem, payments, ledger, saved, pending, proc, clock, faults,
                   chargeCalls, chargeOk, expired, rproc, refundLog, bus>>

RelayStep ==
    \/ RelayPoll
    \/ \E outcome \in {"ok", "fail_first", "fail_second"} : RelayAttempt(outcome)
    \/ RelayReturn
    \/ RelayCountFailed

\* ------------------------------------------------------------------ OutboxWorker
TaskIds == 1..MaxTasks

\* start() without the "already running" test
AlreadyRunning_never(w) == FALSE

\* if self._running: return
AlreadyRunning(w) == w.running

\* OutboxWorker.start (it has no await: it runs as one step)
start(w) ==
    IF AlreadyRunning(w) THEN w
    ELSE [w EXCEPT !.running = TRUE,
                   !.tasks = Append(@, NewTask),
                   !.task = Len(w.tasks) + 1]

\* stop() that only clears the flag
stop_flag_only(w) ==
    IF ~w.running THEN w ELSE [w EXCEPT !.running = FALSE]

\* OutboxWorker.stop up to its await: _running = False, self._task.cancel()
\* (without effect on a task that is done), then await self._task.
stop(w) ==
    IF ~w.running THEN w
    ELSE IF w.task = NoTask THEN [w EXCEPT !.running = FALSE]
    ELSE [w EXCEPT !.running = FALSE,
                   !.tasks[w.task].cancel = (w.tasks[w.task].pc # "done"),
                   !.stopping = @ \cup {w.task}]

\* "except Exception" that catches nothing
Caught_none(exc) == FALSE

\* except Exception as e: asyncio.CancelledError is a BaseException
Caught(exc) == exc = "Exception"

\* A caller awaits start().
WStart ==
    /\ AlreadyRunning(worker) \/ Len(worker.tasks) < MaxTasks
    /\ worker' = [start(worker) EXCEPT
                     !.last = IF worker.running THEN "start_noop" ELSE "start"]
    /\ UNCHANGED <<calc, entity, orch, rproc, refundLog, bus, relay>>

\* A caller awaits stop(): the part before await self._task.
WStop ==
    /\ worker' = [stop(worker) EXCEPT
                     !.last = IF worker.running THEN "stop" ELSE "stop_noop"]
    /\ UNCHANGED <<calc, entity, orch, rproc, refundLog, bus, relay>>

\* await self._task ends when the task is done; stop() returns.
WStopReturn(t) ==
    /\ t \in worker.stopping
    /\ worker.tasks[t].pc = "done"
    /\ worker' = [worker EXCEPT !.stopping = @ \ {t}, !.last = "stopped"]
    /\ UNCHANGED <<calc, entity, orch, rproc, refundLog, bus, relay>>

\* The task is resumed with a cancellation requested: CancelledError is
\* raised at its await (inside the try when it awaits one of the two calls).
WCancelled(t) ==
    /\ t \in 1..Len(worker.tasks)
    /\ worker.tasks[t].pc # "done"
    /\ worker.tasks[t].cancel
    /\ worker' = [worker EXCEPT !.tasks[t] =
          IF @.pc \in {"publish", "count"} /\ Caught("CancelledError")
          THEN [@ EXCEPT !.pc = "interval", !.cancel = FALSE]
          ELSE [@ EXCEPT !.pc = "done"]]
    /\ UNCHANGED <<calc, entity, orch, rproc, refundLog, bus, relay>>

\* while self._running: ... await self._publisher.publish_pending_events()
\* (at the task's first step, and when asyncio.sleep(interval) is over)
WRunLoop(t) ==
    /\ t \in 1..Len(worker.tasks)
    /\ worker.tasks[t].pc \in {"new", "interval"}
    /\ ~worker.tasks[t].cancel
    /\ worker' = [worker EXCEPT !.tasks[t].pc =
                     IF worker.running THEN "publish" ELSE "done"]
    /\ UNCHANGED <<calc, entity, orch, rproc, refundLog, bus, relay>>

\* The end of a call awaited inside the try: it returns, or raises an
\* Exception that the handler logs.
AfterCall(task, ok, next) ==
    IF ok THEN [task EXCEPT !.pc = next]
    ELSE IF Caught("Exception") THEN [task EXCEPT !.pc = "interval", !.raised = TRUE]
    ELSE [task EXCEPT !.pc = "done", !.raised = TRUE]

\* publish_pending_events() returns or raises; on return the task calls
\* get_failed_events_count().
WPublish(t, ok) ==
    /\ t \in 1..Len(worker.tasks)
    /\ worker.tasks[t].pc = "publish"
    /\ ~worker.tasks[t].cancel
    /\ worker' = [worker EXCEPT !.tasks[t] = AfterCall(@, ok, "count")]
    /\ UNCHANGED <<calc, entity, orch, rproc, refundLog, bus, relay>>

\* get_failed_events_count() returns or raises; the task goes to
\* asyncio.sleep(self._interval).
WCount(t, ok) ==
    /\ t \in 1..Len(worker.tasks)
    /\ worker.tasks[t].pc = "count"
    /\ ~worker.tasks[t].cancel
    /\ worker' = [worker EXCEPT !.tasks[t] = AfterCall(@, ok, "interval")]
    /\ UNCHANGED <<calc, entity, orch, rproc, refundLog, bus, relay>>

\* The steps of loop task t.
WTaskStep(t) ==
    \/ WCancelled(t)
    \/ WRunLoop(t)
    \/ \E ok \in BOOLEAN : WPublish(t, ok)
    \/ \E ok \in BOOLEAN : WCount(t, ok)

\* ------------------------------------------------------------------ Payment under direct calls
Statuses ==
    {"pending", "processing", "completed", "failed", "refunded",
     "partially_refunded", "cancelled"}

Currencies == {USD, EUR}

ProviderTxIds == {<<"ch", 1, n>> : n \in 1..2}

\* A Payment as Payment(...) or _model_to_entity builds it: any status, with
\* or without provider transaction, refunded_amount in the currency of amount.
PaymentObjects ==
    {[NewPayment(1, [value |-> v, currency |-> c], Now) EXCEPT
            !.status = st, !.ptx = tx, !.refunded = [value |-> x, currency |-> c]] :
        v \in 0..PayAmount, c \in Currencies, st \in Statuses,
        tx \in {NoTx, <<"ch", 1, 1>>}, x \in 0..PayAmount}

\* The object is a newly created PENDING Payment.
IsNew(pay) == pay.status = "pending" /\ pay.ptx = NoTx /\ pay.refunded.value = 0

PaymentInit ==
    /\ Start
    /\ calc = NoCalc
    /\ entity \in {[Constructed(pay) EXCEPT !.fresh = IsNew(pay)] :
                     pay \in {q \in PaymentObjects : q.refunded.value <= q.amount.value}}

\* The Amounts a caller can pass to refund.
RefundArgs == {[value |-> v, currency |-> c] : v \in 0..(PayAmount + 1), c \in Currencies}

\* The instant of the next method call.
NextInstant == DateTimeOf(clock + 1)

\* One method call on the object: m is what the method returns ([err, pay]).
Call(op, arg, m) ==
    /\ clock' = clock + 1
    /\ entity' = [entity EXCEPT
            !.pay = m.pay, !.before = entity.pay, !.op = op, !.arg = arg,
            !.err = m.err, !.prev = entity.err, !.calls = @ + 1,
            !.only_refunds = @ /\ op = "refund",
            !.accepted = IF op = "refund" /\ m.err = NoError THEN @ + 1 ELSE @,
            !.sum = IF op = "refund" /\ m.err = NoError THEN @ + arg.value ELSE @]
    /\ UNCHANGED <<worker, calc, idem, payments, ledger, outbox, saved, pending, proc, faults,
                   chargeCalls, chargeOk, expired, rproc, refundLog, bus, relay>>

EMarkProcessing(tx) ==
    /\ entity.calls < MaxCalls
    /\ Call("mark_processing", tx, mark_processing(entity.pay, tx, NextInstant))

EMarkCompleted ==
    /\ entity.calls < MaxCalls
    /\ Call("mark_completed", NoArg, mark_completed(entity.pay, NextInstant))

EMarkFailed ==
    /\ entity.calls < MaxCalls
    /\ Call("mark_failed", NoArg, mark_failed(entity.pay, NextInstant))

ERefund(x) ==
    /\ entity.calls < MaxCalls
    /\ Call("refund", x, refund(entity.pay, x, NextInstant))

\* await strategy.compensate(payment, error) for each of the strategies
ECompensateFailed ==
    /\ entity.calls < MaxCalls
    /\ Call("PaymentFailedCompensation", NoArg,
            PaymentFailedCompensation(entity.pay, NextInstant))

ECompensateRetryable ==
    /\ entity.calls < MaxCalls
    /\ Call("RetryableFailureCompensation", NoArg,
            RetryableFailureCompensation(entity.pay, NextInstant))

ECompensateFraud ==
    /\ entity.calls < MaxCalls
    /\ Call("FraudDetectedCompensation", NoArg,
            FraudDetectedCompensation(entity.pay, NextInstant))

\* ------------------------------------------------------------------ Amount computations
\* Values of both magnitudes: within the precision and at its edge.
AmountValues == {0, 1, 2, 10 ^ Precision - 1, 10 ^ Precision, 10 ^ Precision + 1}

\* Currency strings a caller can pass: two codes, a short one, the empty one.
CurrencyStrings == {USD, EUR, <<"U", "S">>, <<>>}

\* The Amounts that exist as operands.
Amounts == {[value |-> v, currency |-> c] : v \in AmountValues, c \in Currencies}

\* One operation of the computation: its operands and what it returned; the
\* operation before it is kept beside it.
Computed(op, a, b, m) ==
    /\ calc.n < MaxOps
    /\ calc' = [op |-> op, a |-> a, b |-> b, err |-> m.err, amt |-> m.amt,
                pop |-> calc.op, pa |-> calc.a, pb |-> calc.b, perr |-> calc.err,
                n |-> calc.n + 1]
    /\ UNCHANGED <<worker, entity, orch, rproc, refundLog, bus, relay>>

\* Amount(value=v, currency=c)
ANew(v, c) ==
    /\ calc.op = "none"
    /\ Computed("new", [value |-> v, currency |-> c], [value |-> v, currency |-> c],
                Amount(v, c))

\* r + b for the Amount r that the computation holds
AAdd(b) ==
    /\ calc.op # "none"
    /\ calc.err = NoError
    /\ Computed("add", calc.amt, b, Amount_add(calc.amt, b))

\* r - b for the Amount r that the computation holds
ASub(b) ==
    /\ calc.op # "none"
    /\ calc.err = NoError
    /\ Computed("sub", calc.amt, b, Amount_sub(calc.amt, b))

\* ------------------------------------------------------------------ specifications
IdemKeys == Keys \cup {-f : f \in Refunds}

\* The steps of ProcessPayment.execute after its submission.
PPRun(r) ==
    \/ PPIsDuplicate(r)
    \/ PPGetResult(r)
    \/ PPSavePending(r)
    \/ PPOutboxCreated(r)
    \/ PPCharge(r)
    \/ PPSaveProcessing(r)
    \/ PPSaveTxProcessing(r)
    \/ PPSaveCompleted(r)
    \/ PPSaveTxCompleted(r)
    \/ PPOutboxCompleted(r)
    \/ PPStoreResult(r)
    \/ PPExceptSavePayment(r)
    \/ PPExceptSaveTx(r)
    \/ PPExceptOutboxFailed(r)

\* The steps of a ProcessPayment request of the API: execute, then the end
\* of the request session.
PPStep(r) ==
    \/ PPRun(r)
    \/ PPCloseSession(r)

\* The steps of a RefundPayment run after its submission.
RFStep(f) ==
    \/ RFIsDuplicate(f)
    \/ RFGetResult(f)
    \/ RFGetById(f)
    \/ RFRefund(f)
    \/ RFSavePayment(f)
    \/ RFSaveTx(f)
    \/ RFPublish(f)
    \/ RFStoreResult(f)

\* Concurrent ProcessPayment requests (each request is an independent run).
Next ==
    \/ \E r \in Runs, k \in Keys : PPStart(r, k)
    \/ \E r \in Runs : PPStep(r)
    \/ \E k \in IdemKeys : Expire(k)

Spec == Init /\ [][Next]_vars

\* A client that submits its requests (charges and refunds) one at a time,
\* each after the previous one has been answered.
Quiet ==
    /\ \A r \in Runs : proc[r].pc \in {"idle", "closed"}
    /\ \A f \in Refunds : rproc[f].pc \in {"idle", "returned", "raised"}

SeqPPStart(r, k) == Quiet /\ PPStart(r, k)

SeqRFStart(f, pid, x, k) == Quiet /\ RFStart(f, pid, x, k)

SeqNext ==
    \/ \E r \in Runs, k \in Keys : SeqPPStart(r, k)
    \/ \E f \in Refunds, pid \in Runs, x \in 0..PayAmount, k \in {0} \cup Keys :
            SeqRFStart(f, pid, x, k)
    \/ \E r \in Runs : PPStep(r)
    \/ \E f \in Refunds : RFStep(f)
    \/ \E k \in IdemKeys : Expire(k)

SeqSpec == Init /\ [][SeqNext]_vars

\* The outbox relay running beside a client that submits charges one at a time.
RelayNext ==
    \/ \E r \in Runs, k \in Keys : SeqPPStart(r, k)
    \/ \E r \in Runs : PPStep(r)
    \/ RelayStep

RelaySpec == Init /\ [][RelayNext]_vars

\* The worker loop keeps ticking and every request runs to its end.
FairRelaySpec ==
    /\ RelaySpec
    /\ WF_vars(RelayStep)
    /\ \A r \in Runs : WF_vars(PPStep(r))

\* The command worker (commands handled one at a time on one session) with
\* the outbox relay running beside it.
WorkerNext ==
    \/ \E r \in Runs, k \in Keys : SeqPPStart(r, k)
    \/ \E r \in Runs : PPRun(r)
    \/ \E r \in Runs : PPKeepSession(r)
    \/ RelayStep

WorkerSpec == Init /\ [][WorkerNext]_vars

\* The relay ticking for ever with a small batch beside a client, where
\* events may fail on every attempt.
StarveNext ==
    \/ \E r \in Runs, k \in Keys : SeqPPStart(r, k)
    \/ \E r \in Runs : PPStep(r)
    \/ StarveRelayStep

StarveSpec ==
    /\ Init /\ [][StarveNext]_vars
    /\ WF_vars(StarveRelayStep)
    /\ \A r \in Runs : WF_vars(PPStep(r))

\* An OutboxWorker under start() and stop() calls made at any moment, with
\* the event loop running every task that can run.
LifeNext ==
    \/ WStart
    \/ WStop
    \/ \E t \in TaskIds : WStopReturn(t)
    \/ \E t \in TaskIds : WTaskStep(t)

LifeSpec ==
    /\ Init /\ [][LifeNext]_vars
    /\ \A t \in TaskIds : WF_vars(WTaskStep(t))
    /\ \A t \in TaskIds : WF_vars(WStopReturn(t))

\* Refund requests submitted while other refund requests are in progress
\* (each request has its own session); charges are submitted one at a time.
ConcRFStart(f, pid, x, k) ==
    /\ \A r \in Runs : proc[r].pc \in {"idle", "closed"}
    /\ RFStart(f, pid, x, k)

ConcRefundNext ==
    \/ \E r \in Runs, k \in Keys : SeqPPStart(r, k)
    \/ \E f \in Refunds, pid \in Runs, x \in 0..PayAmount, k \in {0} \cup Keys :
            ConcRFStart(f, pid, x, k)
    \/ \E r \in Runs : PPStep(r)
    \/ \E f \in Refunds : RFStep(f)

ConcRefundSpec == Init /\ [][ConcRefundNext]_vars

\* The relay beside a client, with OutboxWorker.stop() called at any moment.
StopNext ==
    \/ RelayNext
    \/ \E at \in CancelPoints \cup {"sleep"} : WorkerStop(at)

StopSpec == Init /\ [][StopNext]_vars

\* Any computation of up to MaxOps operations on Amounts.
AmountNext ==
    \/ \E v \in {-1} \cup AmountValues, c \in CurrencyStrings : ANew(v, c)
    \/ \E b \in Amounts : AAdd(b)
    \/ \E b \in Amounts : ASub(b)

AmountSpec == Init /\ [][AmountNext]_vars

\* Any sequence of method calls on one Payment object.
PaymentNext ==
    \/ \E tx \in ProviderTxIds : EMarkProcessing(tx)
    \/ EMarkCompleted
    \/ EMarkFailed
    \/ \E x \in RefundArgs : ERefund(x)

PaymentSpec == PaymentInit /\ [][PaymentNext]_vars

\* A Payment object under the compensation strategies and its own operations.
CompensationNext ==
    \/ ECompensateFailed
    \/ ECompensateRetryable
    \/ ECompensateFraud
    \/ PaymentNext

CompensationSpec == PaymentInit /\ [][CompensationNext]_vars

\* ------------------------------------------------------------------ properties
\* The run ended by returning a response (no exception).
Succeeded(r) == Finished(r) /\ proc[r].exc = NoError

\* Runs a and b were both submitted, with the same idempotency key.
SameKey(a, b) ==
    /\ a # b
    /\ proc[a].pc # "idle" /\ proc[b].pc # "idle"
    /\ proc[a].key = proc[b].key

\* No run other than a and b carries their key.
OnlyCalls(a, b) ==
    \A c \in Runs \ {a, b} : proc[c].pc = "idle" \/ proc[c].key # proc[a].key

\* b was submitted after a had ended, a returned a response, b has ended too.
SecondCall(a, b) ==
    /\ SameKey(a, b) /\ OnlyCalls(a, b)
    /\ a \in proc[b].prior
    /\ Succeeded(a) /\ Finished(b)

\* The runs overlapped in time.
Overlap(a, b) == a \in proc[b].conc \/ b \in proc[a].conc

\* C1 as stated: of two sequential ProcessPayment calls with the same key, the
\* first of which returned a response, the second returns an equal response
\* and Gateway.charge was invoked exactly once in total.
C1_AsStated ==
    \A a, b \in Runs :
        SecondCall(a, b) =>
            /\ Succeeded(b)
            /\ proc[b].result = proc[a].result
            /\ chargeCalls[proc[a].key] = 1

\* C1 amended: the same, provided the record cached by the first call has not
\* expired (TTL of the idempotency store).
C1_WithinTTL ==
    \A a, b \in Runs :
        (SecondCall(a, b) /\ ~expired[proc[a].key]) =>
            /\ Succeeded(b)
            /\ proc[b].result = proc[a].result
            /\ chargeCalls[proc[a].key] = 1

\* A second call answered from the cache, the cached created_at carrying a
\* sub-second part.
C1_Witness ==
    \E a, b \in Runs :
        /\ SecondCall(a, b) /\ ~expired[proc[a].key]
        /\ proc[b].hit
        /\ proc[a].result.created_at.usec # 0
        /\ proc[b].result = proc[a].result

\* C2 as stated: runs with the same key that overlap in time never invoke
\* Gateway.charge more than once between them.
C2_AtMostOneCharge ==
    \A a, b \in Runs :
        (SameKey(a, b) /\ Overlap(a, b) /\ ~expired[proc[a].key]) =>
            ~(proc[a].charged /\ proc[b].charged)

\* C3 as stated: when the calls with a key are made one after the other
\* (retries), Gateway.charge returns successfully at most once for the key.
C3_NoDoubleCharge ==
    \A k \in Keys :
        ((\A a, b \in Runs : SameKey(a, b) /\ proc[a].key = k => ~Overlap(a, b))
            /\ ~expired[k])
        => chargeOk[k] <= 1

\* C4 as stated: a run whose is_duplicate(key) returned true performs no side
\* effect (no gateway call, no save, no read of the payment, no outbox or
\* idempotency write) and ends by returning the cached response.
C4_AsStated ==
    /\ \A r \in Runs : proc[r].dup =>
            /\ ~proc[r].charged
            /\ r \notin DOMAIN payments
            /\ \A e \in saved : e.aggregate_id # r
            /\ (Finished(r) => proc[r].hit)
    /\ \A f \in Refunds : rproc[f].dup =>
            /\ rproc[f].pay = IdleRefund.pay
            /\ rproc[f].refund_tx_id = NoTx
            /\ (rproc[f].pc \in {"returned", "raised"} => rproc[f].hit)

EventsOf(rows, pid, types) ==
    {e \in rows : e.aggregate_id = pid /\ e.event_type \in types}

C7_AtomicWithEvent ==
    \A r \in Runs :
        /\ (r \in DOMAIN payments)
              <=> (EventsOf(outbox, r, {"PaymentCreated"}) # {})
        /\ (r \in DOMAIN payments /\ payments[r].status = "completed")
              <=> (EventsOf(outbox, r, {"PaymentCompleted"}) # {})
        /\ (r \in DOMAIN payments /\ payments[r].status = "failed")
              <=> (EventsOf(outbox, r, {"PaymentFailed"}) # {})

\* A message for the event has been delivered to the Event Bus.
Delivered(e) ==
    \E i \in 1..Len(bus) :
        /\ bus[i].payment_id = e.aggregate_id
        /\ bus[i].event_type = e.event_type

\* C8 as stated: every outbox row marked published has been delivered to the
\* Event Bus at least once.
C8_PublishedOnlyAfterDelivery ==
    \A e \in outbox : e.published => Delivered(e)

\* C9 as stated: after a tick, an event whose delivery failed in the tick is
\* unpublished, its attempts counter is exactly 1 greater than when the tick
\* read it, and last_error holds the error text.
C9_FailureCountedOnce ==
    relay.pc = "sleep" =>
        \A e \in outbox : e.id \in relay.failed =>
            /\ ~e.published
            /\ \E s \in relay.snap : s[1] = e.id /\ e.attempts = s[2] + 1
            /\ e.last_error # NoText

EventTypes == {"PaymentCreated", "PaymentCompleted", "PaymentFailed"}

\* C10 as stated: every event the Orchestrator saved to the outbox is
\* eventually delivered to the Event Bus and marked published.
C10_NoEventLost ==
    \A r \in Runs, t \in EventTypes :
        (EventsOf(saved, r, {t}) # {})
            ~> (\E e \in EventsOf(outbox, r, {t}) : e.published /\ Delivered(e))

\* ------------------------------------------------------------------ C14..C19: the Payment entity
\* C14: mark_processing(tx_id) is accepted only from PENDING and then sets
\* PROCESSING and provider_transaction_id = tx_id; mark_completed() is
\* accepted only from PROCESSING and then sets COMPLETED; from every other
\* status each raises InvalidPaymentStateError; no call makes a payment
\* COMPLETED except mark_completed from PROCESSING, none makes it PROCESSING
\* except mark_processing from PENDING.
C14_CompletedPath ==
    LET b == entity.before
        a == entity.pay
    IN  /\ entity.op = "mark_processing" =>
              IF b.status = "pending"
              THEN entity.err = NoError /\ a.status = "processing" /\ a.ptx = entity.arg
              ELSE entity.err = "InvalidPaymentStateError"
        /\ entity.op = "mark_completed" =>
              IF b.status = "processing"
              THEN entity.err = NoError /\ a.status = "completed"
              ELSE entity.err = "InvalidPaymentStateError"
        /\ (a.status = "completed" /\ b.status # "completed") =>
              entity.op = "mark_completed" /\ b.status = "processing"
        /\ (a.status = "processing" /\ b.status # "processing") =>
              entity.op = "mark_processing" /\ b.status = "pending"
        /\ (entity.fresh /\ a.status = "completed") => a.ptx \in ProviderTxIds

\* A new PENDING payment has been taken to COMPLETED.
C14_Witness ==
    /\ entity.fresh
    /\ entity.op = "mark_completed"
    /\ entity.before.status = "processing"
    /\ entity.pay.status = "completed"

\* C15: mark_failed() raises InvalidPaymentStateError exactly when the status
\* is COMPLETED or REFUNDED; from every other status it sets FAILED and
\* changes no other field except updated_at.
C15_MarkFailed ==
    entity.op = "mark_failed" =>
        IF entity.before.status \in {"completed", "refunded"}
        THEN entity.err = "InvalidPaymentStateError"
        ELSE /\ entity.err = NoError
             /\ entity.pay = [entity.before EXCEPT
                    !.status = "failed", !.updated_at = entity.pay.updated_at]

\* mark_failed has been accepted on a PARTIALLY_REFUNDED payment.
C15_Witness ==
    /\ entity.op = "mark_failed"
    /\ entity.before.status = "partially_refunded"
    /\ entity.before.refunded.value > 0
    /\ entity.pay.status = "failed"

\* C16: refund(x) is accepted only from COMPLETED or PARTIALLY_REFUNDED; with
\* total = refunded_amount + x it raises RefundExceedsOriginalError when
\* total.value > amount.value, is accepted at total == amount and then sets
\* REFUNDED, otherwise sets PARTIALLY_REFUNDED; when accepted, refunded_amount
\* becomes total.
C16_Refund ==
    LET b == entity.before
        a == entity.pay
        x == entity.arg
        total == [value |-> b.refunded.value + x.value, currency |-> b.refunded.currency]
    IN  entity.op = "refund" =>
          /\ entity.err = NoError => can_refund(b.status)
          /\ ~can_refund(b.status) => entity.err = "InvalidPaymentStateError"
          /\ (can_refund(b.status) /\ x.currency = b.refunded.currency) =>
                IF total.value > b.amount.value
                THEN entity.err = "RefundExceedsOriginalError"
                ELSE /\ entity.err = NoError
                     /\ a.refunded = total
                     /\ a.status = IF total = b.amount
                                    THEN "refunded" ELSE "partially_refunded"

\* A refund has been accepted at the boundary, after an earlier partial one.
C16_Witness ==
    /\ entity.op = "refund"
    /\ entity.err = NoError
    /\ entity.before.status = "partially_refunded"
    /\ entity.before.refunded.value > 0
    /\ entity.arg.value > 0
    /\ entity.pay.status = "refunded"

\* C17: every rejected operation leaves the Payment unchanged: status,
\* provider_transaction_id, refunded_amount and updated_at (and every other
\* field) keep their values.
C17_RejectedUnchanged ==
    entity.err # NoError =>
        /\ entity.err \in {"InvalidPaymentStateError", "RefundExceedsOriginalError",
                            "InvalidAmountError"}
        /\ entity.pay = entity.before

\* A refund has been rejected as exceeding the original amount, on a payment
\* whose updated_at lies in the past.
C17_Witness ==
    /\ entity.op = "refund"
    /\ entity.err = "RefundExceedsOriginalError"
    /\ entity.before.status = "partially_refunded"
    /\ entity.before.updated_at # Now

\* C18: in every state reachable from a newly created PENDING Payment by the
\* four operations, refunded_amount has the currency of amount and
\* 0 <= refunded_amount.value <= amount.value.
C18_RefundedWithinAmount ==
    entity.fresh =>
        /\ entity.pay.refunded.currency = entity.pay.amount.currency
        /\ 0 <= entity.pay.refunded.value
        /\ entity.pay.refunded.value <= entity.pay.amount.value

\* A new PENDING payment has been completed, partly refunded and has then
\* rejected a refund that exceeds the rest.
C18_Witness ==
    /\ entity.fresh
    /\ entity.pay.refunded.value > 0
    /\ entity.op = "refund"
    /\ entity.err = "RefundExceedsOriginalError"

\* Only refund has been called, on a payment constructed COMPLETED with
\* nothing refunded.
RefundsOfCompleted ==
    /\ entity.start.status = "completed"
    /\ entity.start.refunded.value = 0
    /\ entity.only_refunds

\* C19: over any sequence of refund calls on a COMPLETED payment,
\* refunded_amount is the sum of the accepted refunds; a refund that fits is
\* accepted whatever was rejected before; the status is REFUNDED exactly when
\* an accepted refund has brought the sum to amount; once REFUNDED every
\* further refund is rejected.
C19_RefundSum ==
    LET b == entity.before
        a == entity.pay
        x == entity.arg
    IN  RefundsOfCompleted =>
          /\ a.refunded.value = entity.sum
          /\ a.status = "refunded" <=> (entity.accepted > 0 /\ entity.sum = a.amount.value)
          /\ (entity.op = "refund" /\ b.status = "refunded") => entity.err # NoError
          /\ (/\ entity.op = "refund"
              /\ b.status # "refunded"
              /\ x.currency = b.amount.currency
              /\ b.refunded.value + x.value <= b.amount.value) => entity.err = NoError

\* refund(1) accepted, a too large refund rejected, refund(1) accepted: the
\* payment of 2 is REFUNDED.
C19_Witness ==
    /\ RefundsOfCompleted
    /\ entity.calls = 3
    /\ entity.accepted = 2
    /\ entity.prev = "RefundExceedsOriginalError"
    /\ entity.err = NoError
    /\ entity.before.refunded.value > 0
    /\ entity.arg.value > 0
    /\ entity.pay.status = "refunded"

\* ------------------------------------------------------------------ C12, C13, C20: RefundPayment
\* C12: a failure of the message bus never makes ProcessPayment or
\* RefundPayment fail: no publish error reaches the caller of a use case.
C12_PublishErrorContained ==
    /\ \A r \in Runs : proc[r].exc # "PublishError" /\ proc[r].orig # "PublishError"
    /\ \A f \in Refunds : rproc[f].exc # "PublishError"

\* C13: a RefundPayment that returned after refunding has appended exactly
\* one OutboxEvent of type PaymentRefunded for the payment.
C13_RefundedEventInOutbox ==
    \A f \in Refunds :
        (rproc[f].pc = "returned" /\ ~rproc[f].hit) =>
            Cardinality(EventsOf(saved, rproc[f].pay.id, {"PaymentRefunded"})) = 1

\* The payment a refund asks for is missing, not refundable or without
\* provider transaction.
Ineligible(pid) ==
    \/ pid \notin DOMAIN payments
    \/ /\ pid \in DOMAIN payments
       /\ \/ payments[pid].status \notin {"completed", "partially_refunded"}
          \/ payments[pid].ptx = NoTx

\* C20: a RefundPayment whose payment is missing, not COMPLETED or
\* PARTIALLY_REFUNDED, or without provider_transaction_id is rejected by the
\* step that loaded the payment (PaymentNotFoundError for a missing payment),
\* with no gateway call and no write: payments, ledger, outbox, idempotency
\* store, gateway log and bus stay as they are.
C20_RejectedBeforeAnyEffect ==
    [][\A f \in Refunds :
        (rproc[f].pc = "get_by_id" /\ Ineligible(rproc[f].payment_id)) =>
            \/ rproc'[f] = rproc[f]
            \/ /\ rproc'[f].pc = "raised"
               /\ rproc'[f].exc = IF rproc[f].payment_id \notin DOMAIN payments
                                   THEN "PaymentNotFoundError" ELSE "ValueError"
               /\ rproc'[f].refund_tx_id = NoTx
               /\ rproc'[f].tx = NoTransaction
               /\ UNCHANGED <<payments, ledger, outbox, saved, pending, idem,
                              chargeCalls, refundLog, bus>>]_vars

\* A refund of a FAILED payment has been rejected.
C20_Witness ==
    \E f \in Refunds :
        /\ rproc[f].pc = "raised"
        /\ rproc[f].exc = "ValueError"
        /\ rproc[f].payment_id \in DOMAIN payments
        /\ payments[rproc[f].payment_id].status = "failed"
        /\ payments[rproc[f].payment_id].ptx # NoTx

\* ------------------------------------------------------------------ C11: publish order
\* C11: of two outbox events of the same aggregate, the one created later is
\* never marked published while the one created earlier is unpublished.
C11_PerAggregateOrder ==
    \A e1 \in outbox, e2 \in outbox :
        (/\ e1.aggregate_id = e2.aggregate_id
         /\ Stamp(e1.created_at) < Stamp(e2.created_at)
         /\ e2.published) => e1.published

\* ------------------------------------------------------------------ C27, C28: Amount
\* C27: for all Amounts a and b of the same currency, (a + b) - b == a.
C27_AddThenSubtract ==
    (/\ calc.op = "sub"
     /\ calc.pop = "add"
     /\ calc.perr = NoError
     /\ calc.b = calc.pb) => (calc.err = NoError /\ calc.amt = calc.pa)

\* C28: every Amount that exists has value >= 0 and a 3-character currency;
\* construction raises InvalidAmountError exactly for a negative value or
\* another currency length; a + b and a - b raise it when the currencies
\* differ; a - b raises it when b.value > a.value, and a - a is zero.
C28_AmountValid ==
    /\ calc.err \in {NoError, "InvalidAmountError"}
    /\ (calc.op # "none" /\ calc.err = NoError) =>
          (calc.amt.value >= 0 /\ Len(calc.amt.currency) = 3)
    /\ calc.op = "new" =>
          (calc.err = "InvalidAmountError" <=> (calc.a.value < 0 \/ Len(calc.a.currency) # 3))
    /\ (calc.op \in {"add", "sub"} /\ calc.a.currency # calc.b.currency) =>
          calc.err = "InvalidAmountError"
    /\ (calc.op = "sub" /\ calc.a.currency = calc.b.currency /\ calc.b.value > calc.a.value) =>
          calc.err = "InvalidAmountError"
    /\ (calc.op = "sub" /\ calc.a = calc.b) => (calc.err = NoError /\ calc.amt.value = 0)

\* A subtraction of the larger from the smaller Amount has been rejected.
C28_Witness ==
    /\ calc.op = "sub"
    /\ calc.a.currency = calc.b.currency
    /\ calc.b.value > calc.a.value
    /\ calc.err = "InvalidAmountError"

C26_CompensationEffect ==
    /\ entity.op \in {"PaymentFailedCompensation", "FraudDetectedCompensation"} =>
          IF entity.before.status \in {"completed", "refunded"}
          THEN entity.err = "InvalidPaymentStateError" /\ entity.pay = entity.before
          ELSE /\ entity.err = NoError
               /\ entity.pay = [entity.before EXCEPT
                      !.status = "failed", !.updated_at = entity.pay.updated_at]
    /\ entity.op = "RetryableFailureCompensation" =>
          (entity.err = NoError /\ entity.pay = entity.before)

\* After an earlier accepted call, a PROCESSING payment has gone through
\* the fraud compensation, which made it FAILED.
C26_Witness ==
    /\ entity.op = "FraudDetectedCompensation"
    /\ entity.prev = NoError
    /\ entity.calls >= 2
    /\ entity.before.status = "processing"
    /\ entity.pay.status = "failed"

\* ------------------------------------------------------------------ C21: the refund amount
\* The refund run has resolved its amount and has not been answered from the
\* cache.
Resolved(f) ==
    /\ rproc[f].pc \in {"refund", "save_payment", "save_tx", "publish",
                         "store_result", "returned"}
    /\ ~rproc[f].hit

\* C21: RefundPayment with an explicit amount refunds exactly that amount,
\* with no amount the remaining amount - refunded_amount, which leaves the
\* payment REFUNDED; when the run returns, that amount is the one the gateway
\* was called with, the one added to refunded_amount, the one of the
\* COMPLETED refund Transaction in the ledger and the one of the response.
C21_RefundAmount ==
    \A f \in Refunds :
        LET r == rproc[f].refund_amount
            before == rproc[f].loaded
            after == rproc[f].pay
        IN  /\ Resolved(f) =>
                  /\ r.currency = before.amount.currency
                  /\ r.value = IF rproc[f].amount # 0 THEN rproc[f].amount
                                ELSE before.amount.value - before.refunded.value
            /\ (Resolved(f) /\ rproc[f].pc = "returned") =>
                  /\ rproc[f].amount = 0 => after.status = "refunded"
                  /\ refundLog[rproc[f].refund_tx_id[3]] =
                        [payment_id |-> before.id, amount |-> r]
                  /\ after.refunded.value = before.refunded.value + r.value
                  /\ rproc[f].tx.amount = r
                  /\ rproc[f].tx.type = "refund"
                  /\ rproc[f].tx.status = "completed"
                  /\ rproc[f].tx.payment_id = before.id
                  /\ rproc[f].tx \in ledger
                  /\ rproc[f].result.refund_amount = Amount_str(r)
                  /\ rproc[f].result.refund_transaction_id = rproc[f].refund_tx_id

\* A refund without amount of a PARTIALLY_REFUNDED payment has returned and
\* left the payment REFUNDED.
C21_Witness ==
    \E f \in Refunds :
        /\ rproc[f].pc = "returned"
        /\ ~rproc[f].hit
        /\ rproc[f].amount = 0
        /\ rproc[f].loaded.status = "partially_refunded"
        /\ rproc[f].loaded.refunded.value > 0
        /\ rproc[f].pay.status = "refunded"

\* ------------------------------------------------------------------ C22: the exception that reaches the caller
\* C22: when a step of ProcessPayment raises, the exception that leaves
\* execute is that original exception: it is neither swallowed nor replaced.
C22_OriginalExceptionPropagates ==
    \A r \in Runs :
        (Finished(r) /\ proc[r].orig # NoError) => proc[r].exc = proc[r].orig

C30_Tick ==
    [][/\ (relay.pc = "sleep" /\ relay'.pc = "publish") =>
            LET unpublished == {e \in outbox : ~e.published}
                taken == {e \in unpublished :
                            \E i \in 1..Len(relay'.batch) : relay'.batch[i] = e.id}
            IN  /\ Len(relay'.batch) <= BatchSize
                /\ Cardinality(taken) = Len(relay'.batch)
                /\ \A e \in taken, u \in unpublished \ taken :
                        Stamp(e.created_at) <= Stamp(u.created_at)
                /\ \A i, j \in 1..Len(relay'.batch) : i < j =>
                        \A e, u \in taken :
                            e.id = relay'.batch[i] /\ u.id = relay'.batch[j]
                                => Stamp(e.created_at) <= Stamp(u.created_at)
       /\ relay'.attempt <= RetryAttempts
       /\ (relay.pc = "publish" /\ relay'.pc = "count") =>
            /\ relay.batch = <<>>
            /\ \A e \in outbox : e.id \in relay.failed => ~e.published
            /\ relay.count = Cardinality({e \in outbox :
                    e.published /\ \E t \in relay.snap : t[1] = e.id})]_vars

\* C24 as stated: the relay is cancelled only between ticks; when stop() has
\* returned, no event of the batch is left in flight: every event the tick
\* took has been attempted to its end.
C24_CancelledBetweenTicks ==
    relay.pc = "stopped" =>
        /\ relay.cancelled_at = "sleep"
        /\ relay.batch = <<>>

\* The refund run passed Payment.refund and saved the payment.
Accepted(f) == rproc[f].tx # NoTransaction

RECURSIVE AcceptedSum(_, _)
AcceptedSum(S, pid) ==
    IF S = {} THEN 0
    ELSE LET f == CHOOSE g \in S : TRUE
         IN  (IF rproc[f].payment_id = pid /\ Accepted(f)
              THEN rproc[f].refund_amount.value ELSE 0)
             + AcceptedSum(S \ {f}, pid)

\* C25 as stated: once all refund runs on a payment have ended, and at least
\* two were submitted, the persisted refunded_amount is the sum of the refund
\* amounts that were accepted, and is at most the payment's amount.
C25_NoLostUpdate ==
    \A pid \in DOMAIN payments :
        LET runs == {f \in Refunds : rproc[f].pc # "idle" /\ rproc[f].payment_id = pid}
        IN  (/\ Cardinality(runs) >= 2
             /\ \A f \in runs : rproc[f].pc \in {"returned", "raised"})
            => /\ payments[pid].refunded.value = AcceptedSum(runs, pid)
               /\ payments[pid].refunded.value <= payments[pid].amount.value

\* C31: outbox rows only progress.  In every step each committed row is still
\* there afterwards with the same id, aggregate, event type and created_at, a
\* published row stays published, and attempts does not decrease.
C31_RowsOnlyProgress ==
    [][\A e \in outbox :
          \E n \in outbox' :
              /\ n.id = e.id
              /\ n.aggregate_type = e.aggregate_type
              /\ n.aggregate_id = e.aggregate_id
              /\ n.event_type = e.event_type
              /\ n.created_at = e.created_at
              /\ e.published => n.published
              /\ n.attempts >= e.attempts]_vars

\* The relay has recorded failures on a row and then published it, beside a
\* second row it has not published, and a later tick has started.
C31_Witness ==
    /\ relay.pc = "publish"
    /\ \E e \in outbox : e.published /\ e.attempts >= 2
    /\ \E e \in outbox : ~e.published /\ e.attempts >= RetryAttempts

TerminalEvents == {"PaymentCompleted", "PaymentFailed"}

\* C32: Gateway.charge is called only when the PENDING payment is saved and
\* its PaymentCreated event has been written to the outbox, with no terminal
\* event written yet; a terminal event is written only by a run whose gateway
\* call has returned or raised; and the PaymentCreated event of a payment has
\* an earlier created_at than its terminal event.
C32_ChargeOrder ==
    [][/\ \A r \in Runs :
            (proc[r].pc = "charge" /\ proc'[r].pc # "charge") =>
                /\ r \in DOMAIN payments
                /\ payments[r].status = "pending"
                /\ EventsOf(saved, r, {"PaymentCreated"}) # {}
                /\ EventsOf(saved, r, TerminalEvents) = {}
       /\ \A e \in saved' \ saved :
            e.event_type \in TerminalEvents => proc[e.aggregate_id].charged
       /\ \A r \in Runs :
            \A c \in EventsOf(saved', r, {"PaymentCreated"}),
               t \in EventsOf(saved', r, TerminalEvents) :
                Stamp(c.created_at) < Stamp(t.created_at)]_vars

\* One run was charged and has written PaymentCompleted, another run's charge
\* raised and it has written PaymentFailed.
C32_Witness ==
    \E r, q \in Runs :
        /\ proc[r].charged /\ proc[q].charged
        /\ EventsOf(saved, r, {"PaymentCreated"}) # {}
        /\ EventsOf(saved, r, {"PaymentCompleted"}) # {}
        /\ EventsOf(saved, q, {"PaymentCreated"}) # {}
        /\ EventsOf(saved, q, {"PaymentFailed"}) # {}

\* The refund run called Gateway.refund (the call returned or raised).
RefundCalled(f) ==
    rproc[f].refund_tx_id # NoTx \/ rproc[f].exc = "PaymentProviderError"

\* C33 as stated: after every step, each ended run that called the gateway
\* has exactly one Transaction for its payment in the ledger, of type charge
\* or refund, COMPLETED when the call succeeded and FAILED with an
\* error_message when it raised; and no step removes a ledger entry.
C33_LedgerRecordsEveryAttempt ==
    [][/\ \A r \in Runs :
            (proc'[r].pc \in {"returned", "raised", "closed"} /\ proc'[r].charged) =>
                LET txs == {t \in ledger' : t.payment_id = r /\ t.type = "charge"}
                IN  /\ Cardinality(txs) = 1
                    /\ \A t \in txs :
                          IF proc'[r].orig = "PaymentProviderError"
                          THEN t.status = "failed" /\ t.error_message # NoText
                          ELSE t.status = "completed"
       /\ \A f \in Refunds :
            (rproc'[f].pc \in {"returned", "raised"} /\ RefundCalled(f)') =>
                LET txs == {t \in ledger' : t.id = <<-f, 1>>}
                IN  /\ Cardinality(txs) = 1
                    /\ \A t \in txs :
                          /\ t.type = "refund"
                          /\ t.payment_id = rproc'[f].payment_id
                          /\ IF rproc'[f].exc = "PaymentProviderError"
                             THEN t.status = "failed" /\ t.error_message # NoText
                             ELSE t.status = "completed"
       /\ \A t \in ledger : \E u \in ledger' : u.id = t.id]_vars

\* The sum of the amounts of the first n Gateway.refund calls that were made
\* for payment pid.
RECURSIVE GatewayRefunded(_, _)
GatewayRefunded(n, pid) ==
    IF n = 0 THEN 0
    ELSE (IF refundLog[n].payment_id = pid THEN refundLog[n].amount.value ELSE 0)
         + GatewayRefunded(n - 1, pid)

\* C34 as stated: for every payment the Gateway.refund calls made for it sum
\* to at most its amount, and once no refund run is in progress the persisted
\* refunded_amount is that sum.
C34_GatewayWithinAmount ==
    \A pid \in DOMAIN payments :
        /\ GatewayRefunded(Len(refundLog), pid) <= payments[pid].amount.value
        /\ (\A f \in Refunds : rproc[f].pc \in {"idle", "returned", "raised"})
              => payments[pid].refunded.value = GatewayRefunded(Len(refundLog), pid)

\* C35 as stated: a payment row is FAILED, a FAILED charge Transaction is in
\* the ledger, or a PaymentFailed event has been written, only for a run
\* whose Gateway.charge call raised.
C35_FailedOnlyWhenChargeRaised ==
    \A r \in Runs :
        (\/ r \in DOMAIN payments /\ payments[r].status = "failed"
         \/ \E t \in ledger : t.payment_id = r /\ t.type = "charge" /\ t.status = "failed"
         \/ EventsOf(saved, r, {"PaymentFailed"}) # {})
        => proc[r].orig = "PaymentProviderError"

\* C36 as stated: when execute has returned or raised, every OutboxEvent the
\* run saved is a committed outbox row, and it still is after the request
\* session has been closed.
C36_SavedEventsCommitted ==
    \A r \in Runs :
        proc[r].pc \in {"returned", "raised", "closed"} =>
            \A e \in saved : e.aggregate_id = r => \E o \in outbox : o.id = e.id

\* The PaymentCreated event is the first object a run constructs.
CreatedIds == {<<r, 1>> : r \in Runs}

\* The relay is attempting the event.
Attempted(id) ==
    relay.pc = "publish" /\ relay.batch # <<>> /\ Head(relay.batch) = id

\* C37 as stated (for the events that are never attempted, whose delivery
\* nothing prevents): under repeated ticks every unpublished PaymentCreated
\* event is eventually published or at least attempted, however often older
\* events fail.
C37_NoStarvation ==
    \A id \in CreatedIds :
        (\E e \in outbox : e.id = id /\ ~e.published)
            ~> ((\E e \in outbox : e.id = id /\ e.published) \/ Attempted(id))

\* The loop tasks that are polling: created, not done, and without a
\* cancellation requested.
ActiveLoops ==
    {t \in 1..Len(worker.tasks) :
        worker.tasks[t].pc # "done" /\ ~worker.tasks[t].cancel}

\* C38: at most one polling loop is active at any time, exactly one while
\* the worker is running and none while it is not; start() on a running
\* worker creates no task, and start() on a worker that is not running
\* creates exactly one.
C38_OneLoop ==
    [][/\ Cardinality(ActiveLoops') = (IF worker'.running THEN 1 ELSE 0)
       /\ worker'.last = "start_noop" /\ worker.last # "start_noop" =>
            worker'.tasks = worker.tasks
       /\ worker'.last = "start" /\ worker.last # "start" =>
            /\ Len(worker'.tasks) = Len(worker.tasks) + 1
            /\ ActiveLoops' = {Len(worker'.tasks)}]_vars

\* start() was called on the running worker after an earlier loop had been
\* stopped and a new one started: the first task is done, the second polls.
C38_Witness ==
    /\ worker.last = "start_noop"
    /\ Len(worker.tasks) = 2
    /\ worker.tasks[1].pc = "done"
    /\ worker.stopping = {}
    /\ ActiveLoops = {2}

\* In this step task t calls publish_pending_events or
\* get_failed_events_count.
CallMade(t) ==
    /\ t \in 1..Len(worker.tasks)
    /\ \/ worker.tasks[t].pc \in {"new", "interval"} /\ worker'.tasks[t].pc = "publish"
       \/ worker.tasks[t].pc = "publish" /\ worker'.tasks[t].pc = "count"

\* C39: a call of publish_pending_events or get_failed_events_count is made
\* only by the current task of a running worker, never by a task a stop() is
\* awaiting or has awaited; whenever the worker is not running and no stop()
\* is in progress, every task is done; stop() on a worker that is not running
\* changes nothing; and every stop() that awaits a task returns.
C39_StoppedMeansSilent ==
    /\ [][/\ \A t \in TaskIds :
               CallMade(t) =>
                   worker.running /\ t = worker.task /\ t \notin worker.stopping
          /\ (~worker'.running /\ worker'.stopping = {}) =>
               \A t \in 1..Len(worker'.tasks) : worker'.tasks[t].pc = "done"
          /\ (worker'.last = "stop_noop" /\ worker.last # "stop_noop") =>
               worker' = [worker EXCEPT !.last = "stop_noop"]]_vars
    /\ \A t \in TaskIds : (t \in worker.stopping) ~> (t \notin worker.stopping)

\* stop() has cancelled the loop task, awaited it and returned: the worker
\* is not running and its only task is done.
C39_Witness ==
    /\ worker.last = "stopped"
    /\ ~worker.running
    /\ worker.stopping = {}
    /\ Len(worker.tasks) = 1
    /\ worker.tasks[1].pc = "done" /\ worker.tasks[1].cancel

\* C40: a loop task ends only when its cancellation was requested (by
\* stop()), never because a tick raised; and after a tick that raised, the
\* task runs the next tick unless the worker is stopped first.
C40_LoopSurvivesErrors ==
    /\ [](\A t \in 1..Len(worker.tasks) :
            worker.tasks[t].pc = "done" => worker.tasks[t].cancel)
    /\ \A t \in TaskIds :
          (t <= Len(worker.tasks) /\ worker.tasks[t].pc = "interval"
                /\ worker.tasks[t].raised)
            ~> (t <= Len(worker.tasks)
                  /\ (worker.tasks[t].pc = "publish" \/ worker.tasks[t].cancel))

\* One tick of the running worker's task raised, and the task has since
\* started another tick and reached that tick's second call.
C40_Witness ==
    /\ worker.running
    /\ worker.task # NoTask
    /\ worker.tasks[worker.task].raised
    /\ worker.tasks[worker.task].pc = "count"


====
